---- MODULE Spec2Model ----
(***************************************************************************)
(* Orbital Arena: the authoritative game server (src/server.js, the        *)
(* GAME_CONFIG version, lines 1-605).  The state is the two process-wide   *)
(* maps (games, players), the Game objects they and the pending respawn    *)
(* closures refer to, the pending setTimeout callbacks and the clock read  *)
(* by Date.now().  Every socket handler and every timer callback runs to   *)
(* completion (Node's event loop), so each is one action.                  *)
(***************************************************************************)
EXTENDS Integers, Sequences, FiniteSets, TLC

VARIABLES
    now,      \* the value Date.now() returns
    games,    \* the games Map in insertion order: <<[id, obj], ...>>
    heap,     \* the live Game objects: obj -> Game
    players,  \* the players Map: socket id -> [gameId, username]
    timers,   \* pending setTimeout(respawnPlayer) callbacks, in firing order
    closed,   \* the sockets that have disconnected (a socket id is never reused)
    sweepAt,  \* when the cleanup setInterval callback is due next
    rooms,    \* the socket.io rooms: the pairs <<room name, socket>>
    ev        \* the handler or callback that ran last: its inputs, results, emits

vars == <<now, games, heap, players, timers, closed, sweepAt, rooms, ev>>

----------------------------------------------------------------------------
\* GAME_CONFIG

PLAYERS_PER_GAME == 6
RESPAWN_DELAY == 3000
MATCH_DURATION == 300000
MAX_POSITION_CHANGE_PER_FRAME == 50
USERNAME_MAX_LENGTH == 15
USERNAME_MIN_LENGTH == 1
CHAT_MESSAGE_MAX_LENGTH == 200
DEFAULT_DAMAGE == 10
MAX_HEALTH == 100
MAX_ENERGY == 100

\* getRandomSpawnPosition: the team bases and the width of the random offset
RED_BASE_X == 0 - 50
BLUE_BASE_X == 50
SPAWN_SPREAD == 20

\* the period of the cleanup setInterval
SWEEP_INTERVAL == 60000

\* Windmill capture.  The radius and the windmills are those of the client
\* (src/src/client/game.js); the server's capture code is not part of the
\* sources, so the rates and intervals are those of the specification, in
\* thousandths of full progress per second and in milliseconds.
CAPTURE_RADIUS == 50
CAPTURE_RATE == 200
CAPTURE_DECAY_RATE == 400
CAPTURE_TICK_INTERVAL == 500
SCORE_TICK_INTERVAL == 5000
PROGRESS_FULL == 1000

\* Math.random() * SPAWN_SPREAD lies in [0, SPAWN_SPREAD): the whole values of it
RandomRange == 0..(SPAWN_SPREAD - 1)

----------------------------------------------------------------------------
\* Bounds of the model

\* the clock is advanced at most MaxClockSteps times
MaxClockSteps == 2
\* in the lobby specification the clock is advanced at most LobbyClockSteps times
LobbyClockSteps == 1
\* respawn callbacks pending at once
MaxTimers == 2
\* in the cleanup specification the sweep runs at most MaxSweeps times
MaxSweeps == 7
\* and at most MaxKills kills are scored in a game
MaxKills == 2

----------------------------------------------------------------------------
\* JavaScript values.  A value that may be a number, NaN, an infinity or not a
\* number at all (undefined, a string) is a record [k, v].

Num(n) == [k |-> "num", v |-> n]
NaN == [k |-> "nan", v |-> 0]
PosInf == [k |-> "inf", v |-> 0]
NegInf == [k |-> "ninf", v |-> 0]
Undef == [k |-> "undef", v |-> 0]

\* typeof v === 'number'
IsNumber(v) == v.k \in {"num", "nan", "inf", "ninf"}

\* isFinite(v), for a v whose typeof is 'number'
IsFinite(v) == v.k = "num"

\* the truthiness of v in `v || w`
Truthy(v) == \/ v.k \in {"inf", "ninf"}
             \/ v.k = "num" /\ v.v # 0

\* Math.max(0, v)
MathMax0(v) ==
    CASE v.k = "num" -> IF v.v < 0 THEN Num(0) ELSE v
      [] v.k = "ninf" -> Num(0)
      [] v.k = "inf" -> PosInf
      [] OTHER -> NaN

\* Math.min(v, hi) for a finite hi
MathMinHi(v, hi) ==
    CASE v.k = "num" -> IF v.v > hi THEN Num(hi) ELSE v
      [] v.k = "inf" -> Num(hi)
      [] v.k = "ninf" -> NegInf
      [] OTHER -> NaN

\* a position object {x, y, z}, or a value that is no object (null, undefined)
Pos(px, py, pz) == [obj |-> TRUE, x |-> px, y |-> py, z |-> pz]
NullPos == [obj |-> FALSE, x |-> Undef, y |-> Undef, z |-> Undef]

\* rotations are never inspected by the server: opaque tokens
ZeroRotation == "zero"

Min(a, b) == IF a < b THEN a ELSE b
Max(a, b) == IF a > b THEN a ELSE b

EmptyMap == [k \in {} |-> 0]

----------------------------------------------------------------------------
\* Validation helpers

\* the characters /^[a-zA-Z0-9 ]+$/ accepts, among those the model sends
UsernameChars == {"a", "B", "7", " "}

sanitizeInput(input) ==
    IF ~input.str THEN <<>>
    ELSE SelectSeq(input.s, LAMBDA ch : ch \notin {"<", ">"})

isValidUsername(username) ==
    /\ Len(username) >= USERNAME_MIN_LENGTH
    /\ Len(username) <= USERNAME_MAX_LENGTH
    /\ \A i \in 1..Len(username) : username[i] \in UsernameChars

\* isValidPosition that inspects x only
isValidPositionXOnly(position) ==
    /\ position.obj
    /\ IsNumber(position.x)
    /\ IsFinite(position.x)

isValidPosition(position) ==
    /\ position.obj
    /\ IsNumber(position.x) /\ IsNumber(position.z)
    /\ IsFinite(position.x) /\ IsFinite(position.z)

\* position.y || 0
YOrZero(y) == IF Truthy(y) THEN y ELSE Num(0)

clampPosition(position) ==
    Pos(IF IsNumber(position.x) /\ IsFinite(position.x) THEN position.x ELSE Num(0),
        YOrZero(position.y),
        IF IsNumber(position.z) /\ IsFinite(position.z) THEN position.z ELSE Num(0))

----------------------------------------------------------------------------
\* class Game

Teams == {"red", "blue"}

OtherTeam(team) == IF team = "red" THEN "blue" ELSE "red"

\* CAPTURE_WINDMILLS: the windmills and where they stand
WindmillIds == {"mill_n", "mill_s", "mill_e", "mill_w", "mill_c"}
WindmillAt ==
    [id \in WindmillIds |->
        CASE id = "mill_n" -> [x |-> 0, z |-> 0 - 300]
          [] id = "mill_s" -> [x |-> 0, z |-> 300]
          [] id = "mill_e" -> [x |-> 300, z |-> 0]
          [] id = "mill_w" -> [x |-> 0 - 300, z |-> 0]
          [] id = "mill_c" -> [x |-> 200, z |-> 0 - 200]]

\* a windmill nobody owns or is capturing: {team, progress, contestingTeam}
NoTeam == "none"
NeutralWindmill == [team |-> NoTeam, progress |-> 0, contestingTeam |-> NoTeam]
NewWindmills == [id \in WindmillIds |-> NeutralWindmill]

\* new Game(id), constructed when Date.now() = t; the windmills are created
\* with the Game
NewGame(id, t) ==
    [id |-> id,
     players |-> EmptyMap,
     teams |-> [red |-> {}, blue |-> {}],
     scores |-> [red |-> 0, blue |-> 0],
     startTime |-> t,
     status |-> "waiting",
     windmills |-> NewWindmills]

\* getRandomSpawnPosition(team); rx and rz are the two draws of
\* Math.random() * SPAWN_SPREAD
getRandomSpawnPosition(team, rx, rz) ==
    Pos(Num((IF team = "red" THEN RED_BASE_X ELSE BLUE_BASE_X) + rx - SPAWN_SPREAD \div 2),
        Num(0),
        Num(rz - SPAWN_SPREAD \div 2))

\* PickTeam with the comparison made strict: ties go to blue
PickTeamStrict(game) ==
    IF Cardinality(game.teams.red) < Cardinality(game.teams.blue) THEN "red" ELSE "blue"

\* the team addPlayer picks
PickTeam(game) ==
    IF Cardinality(game.teams.red) <= Cardinality(game.teams.blue) THEN "red" ELSE "blue"

\* addPlayer(player): the game afterwards and the returned team
addPlayer(game, id, username, rx, rz) ==
    LET team == PickTeam(game)
        rec == [id |-> id,
                username |-> username,
                team |-> team,
                health |-> MAX_HEALTH,
                energy |-> Num(MAX_ENERGY),
                position |-> getRandomSpawnPosition(team, rx, rz),
                rotation |-> ZeroRotation,
                kills |-> 0,
                assists |-> 0,
                deaths |-> 0,
                lastPosition |-> NullPos]
    IN  [game |-> [game EXCEPT !.teams[team] = @ \cup {id},
                               !.players = (id :> rec) @@ @],
         team |-> team]

\* removePlayer that forgets the roster
removePlayerKeepsRoster(game, id) ==
    IF id \in DOMAIN game.players
    THEN [game EXCEPT !.players = [q \in DOMAIN @ \ {id} |-> @[q]]]
    ELSE game

\* removePlayer(playerId)
removePlayer(game, id) ==
    IF id \in DOMAIN game.players
    THEN [game EXCEPT !.teams[game.players[id].team] = @ \ {id},
                      !.players = [q \in DOMAIN @ \ {id} |-> @[q]]]
    ELSE game

\* the teleport test of updatePlayerPosition: sqrt(dx*dx + dz*dz) > MAX
Teleported(last, position) ==
    LET dx == position.x.v - last.x.v
        dz == position.z.v - last.z.v
    IN  dx * dx + dz * dz > MAX_POSITION_CHANGE_PER_FRAME * MAX_POSITION_CHANGE_PER_FRAME

\* the energy clamp without its lower end
ClampEnergyNoFloor(energy) == MathMinHi(energy, MAX_ENERGY)

\* Math.max(0, Math.min(MAX_ENERGY, energy))
ClampEnergy(energy) == MathMax0(MathMinHi(energy, MAX_ENERGY))

\* updatePlayerPosition that refuses a teleport instead of clamping it
updatePlayerPositionRefusesJump(game, id, position, rotation, energy) ==
    IF id \notin DOMAIN game.players THEN [game |-> game, ok |-> FALSE]
    ELSE IF ~isValidPosition(position) THEN [game |-> game, ok |-> FALSE]
    ELSE IF /\ game.players[id].lastPosition.obj
            /\ Teleported(game.players[id].lastPosition, position)
    THEN [game |-> game, ok |-> FALSE]
    ELSE
      LET moved == [game.players[id] EXCEPT !.position = position,
                                            !.rotation = rotation,
                                            !.lastPosition = position]
          after == IF IsNumber(energy)
                   THEN [moved EXCEPT !.energy = ClampEnergy(energy)]
                   ELSE moved
      IN  [game |-> [game EXCEPT !.players[id] = after], ok |-> TRUE]

\* updatePlayerPosition that keeps the position as sent for its baseline
updatePlayerPositionBaselineAsSent(game, id, position, rotation, energy) ==
    IF id \notin DOMAIN game.players THEN [game |-> game, ok |-> FALSE]
    ELSE IF ~isValidPosition(position) THEN [game |-> game, ok |-> FALSE]
    ELSE
      LET player == game.players[id]
          committed == IF player.lastPosition.obj /\ Teleported(player.lastPosition, position)
                       THEN clampPosition(position)
                       ELSE position
          moved == [player EXCEPT !.position = committed,
                                  !.rotation = rotation,
                                  !.lastPosition = position]
          after == IF IsNumber(energy)
                   THEN [moved EXCEPT !.energy = ClampEnergy(energy)]
                   ELSE moved
      IN  [game |-> [game EXCEPT !.players[id] = after], ok |-> TRUE]

\* updatePlayerPosition(playerId, position, rotation, energy): the game afterwards
\* and the returned boolean
updatePlayerPosition(game, id, position, rotation, energy) ==
    IF id \notin DOMAIN game.players THEN [game |-> game, ok |-> FALSE]
    ELSE IF ~isValidPosition(position) THEN [game |-> game, ok |-> FALSE]
    ELSE
      LET player == game.players[id]
          committed == IF player.lastPosition.obj /\ Teleported(player.lastPosition, position)
                       THEN clampPosition(position)
                       ELSE position
          moved == [player EXCEPT !.position = committed,
                                  !.rotation = rotation,
                                  !.lastPosition = committed]
          after == IF IsNumber(energy)
                   THEN [moved EXCEPT !.energy = ClampEnergy(energy)]
                   ELSE moved
      IN  [game |-> [game EXCEPT !.players[id] = after], ok |-> TRUE]

\* Math.min(Math.max(0, damage), MAX_HEALTH), for a damage that is a number
ValidDamage(damage) == MathMinHi(MathMax0(damage), MAX_HEALTH)

\* the guard of handlePlayerHit without its test of the target's health
HitIgnoredUnlessUnknown(game, attackerId, targetId) ==
    \/ targetId \notin DOMAIN game.players
    \/ attackerId \notin DOMAIN game.players

\* the guard of handlePlayerHit: !target || !attacker || target.health <= 0
HitIgnored(game, attackerId, targetId) ==
    \/ targetId \notin DOMAIN game.players
    \/ attackerId \notin DOMAIN game.players
    \/ game.players[targetId].health <= 0

\* the kill branch with the target's deaths left alone
KillCreditNoDeath(game, attackerId, targetId) ==
    [game EXCEPT !.players[attackerId].kills = @ + 1,
                 !.scores[game.players[attackerId].team] = @ + 1]

\* the kill branch paying two points
KillCreditTwoPoints(game, attackerId, targetId) ==
    LET credited == [game EXCEPT !.players[attackerId].kills = @ + 1]
        counted == [credited EXCEPT !.players[targetId].deaths = @ + 1]
    IN  [counted EXCEPT !.scores[counted.players[attackerId].team] = @ + 2]

\* the kill branch of handlePlayerHit: attacker.kills++, target.deaths++,
\* this.scores[attacker.team]++
KillCredit(game, attackerId, targetId) ==
    LET credited == [game EXCEPT !.players[attackerId].kills = @ + 1]
        counted == [credited EXCEPT !.players[targetId].deaths = @ + 1]
    IN  [counted EXCEPT !.scores[counted.players[attackerId].team] = @ + 1]

\* handlePlayerHit(attackerId, targetId, damage): the game afterwards, the
\* returned boolean, whether the guard let the hit through, and whether
\* setTimeout(respawnPlayer) was called
handlePlayerHit(game, attackerId, targetId, damage) ==
    IF HitIgnored(game, attackerId, targetId)
    THEN [game |-> game, killed |-> FALSE, applied |-> FALSE, scheduled |-> FALSE]
    ELSE
      LET health == Max(0, game.players[targetId].health - ValidDamage(damage).v)
          hit == [game EXCEPT !.players[targetId].health = health]
      IN  IF health <= 0
          THEN [game |-> KillCredit(hit, attackerId, targetId),
                killed |-> TRUE, applied |-> TRUE, scheduled |-> TRUE]
          ELSE [game |-> hit, killed |-> FALSE, applied |-> TRUE, scheduled |-> FALSE]

\* respawnPlayer that puts a player who has left back into the game
respawnPlayerRecreates(game, id, rx, rz) ==
    IF id \in DOMAIN game.players
    THEN LET team == game.players[id].team
         IN  [game EXCEPT !.players[id] =
                [@ EXCEPT !.health = MAX_HEALTH,
                          !.energy = Num(MAX_ENERGY),
                          !.position = getRandomSpawnPosition(team, rx, rz),
                          !.rotation = ZeroRotation,
                          !.lastPosition = NullPos]]
    ELSE addPlayer(game, id, <<>>, rx, rz).game

\* respawnPlayer that keeps the anti-cheat baseline
respawnPlayerKeepsBaseline(game, id, rx, rz) ==
    IF id \in DOMAIN game.players
    THEN LET team == game.players[id].team
         IN  [game EXCEPT !.players[id] =
                [@ EXCEPT !.health = MAX_HEALTH,
                          !.energy = Num(MAX_ENERGY),
                          !.position = getRandomSpawnPosition(team, rx, rz),
                          !.rotation = ZeroRotation]]
    ELSE game

\* respawnPlayer(playerId)
respawnPlayer(game, id, rx, rz) ==
    IF id \in DOMAIN game.players
    THEN LET team == game.players[id].team
         IN  [game EXCEPT !.players[id] =
                [@ EXCEPT !.health = MAX_HEALTH,
                          !.energy = Num(MAX_ENERGY),
                          !.position = getRandomSpawnPosition(team, rx, rz),
                          !.rotation = ZeroRotation,
                          !.lastPosition = NullPos]]
    ELSE game

\* the players of a team within CAPTURE_RADIUS of a windmill, by planar distance
Occupants(game, id, team) ==
    {q \in DOMAIN game.players :
        /\ game.players[q].team = team
        /\ LET dx == game.players[q].position.x.v - WindmillAt[id].x
               dz == game.players[q].position.z.v - WindmillAt[id].z
           IN  dx * dx + dz * dz <= CAPTURE_RADIUS * CAPTURE_RADIUS}

\* the team that is alone at a windmill with red and blue occupants, if any
CapturingTeam(red, blue) ==
    IF red >= 1 /\ blue = 0 THEN "red"
    ELSE IF blue >= 1 /\ red = 0 THEN "blue"
    ELSE NoTeam

\* what one capture tick adds, and what one tick of decay takes away
CaptureStep == (CAPTURE_RATE * CAPTURE_TICK_INTERVAL) \div 1000
DecayStep == (CAPTURE_DECAY_RATE * CAPTURE_TICK_INTERVAL) \div 1000

\* the capture tick that hands the windmill over one tick early
tickWindmillOwnsEarly(mill, red, blue) ==
    IF red >= 1 /\ blue >= 1 THEN mill
    ELSE IF CapturingTeam(red, blue) = NoTeam
    THEN IF mill.team = NoTeam /\ mill.progress > 0
         THEN [mill EXCEPT !.progress = Max(0, @ - DecayStep),
                           !.contestingTeam =
                               IF mill.progress - DecayStep <= 0 THEN NoTeam ELSE @]
         ELSE mill
    ELSE IF mill.team = CapturingTeam(red, blue) THEN mill
    ELSE LET base == IF mill.contestingTeam # CapturingTeam(red, blue)
                     THEN [mill EXCEPT !.progress = 0,
                                       !.contestingTeam = CapturingTeam(red, blue)]
                     ELSE mill
             progress == Min(PROGRESS_FULL, base.progress + CaptureStep)
         IN  [base EXCEPT !.progress = progress,
                          !.team = IF progress + CaptureStep >= PROGRESS_FULL
                                   THEN CapturingTeam(red, blue) ELSE @]

\* the capture tick that keeps the progress of the other team
tickWindmillKeepsProgress(mill, red, blue) ==
    IF red >= 1 /\ blue >= 1 THEN mill
    ELSE IF CapturingTeam(red, blue) = NoTeam
    THEN IF mill.team = NoTeam /\ mill.progress > 0
         THEN [mill EXCEPT !.progress = Max(0, @ - DecayStep),
                           !.contestingTeam =
                               IF mill.progress - DecayStep <= 0 THEN NoTeam ELSE @]
         ELSE mill
    ELSE IF mill.team = CapturingTeam(red, blue) THEN mill
    ELSE LET base == [mill EXCEPT !.contestingTeam = CapturingTeam(red, blue)]
             progress == Min(PROGRESS_FULL, base.progress + CaptureStep)
         IN  [base EXCEPT !.progress = progress,
                          !.team = IF progress = PROGRESS_FULL
                                   THEN CapturingTeam(red, blue) ELSE @]

\* the capture tick that accumulates while both teams are present
tickWindmillIgnoresContest(mill, red, blue) ==
    LET team == IF red >= 1 THEN "red" ELSE IF blue >= 1 THEN "blue" ELSE NoTeam IN
    IF team = NoTeam
    THEN IF mill.team = NoTeam /\ mill.progress > 0
         THEN [mill EXCEPT !.progress = Max(0, @ - DecayStep),
                           !.contestingTeam =
                               IF mill.progress - DecayStep <= 0 THEN NoTeam ELSE @]
         ELSE mill
    ELSE IF mill.team = team THEN mill
    ELSE LET base == IF mill.contestingTeam # team
                     THEN [mill EXCEPT !.progress = 0, !.contestingTeam = team]
                     ELSE mill
             progress == Min(PROGRESS_FULL, base.progress + CaptureStep)
         IN  [base EXCEPT !.progress = progress,
                          !.team = IF progress = PROGRESS_FULL THEN team ELSE @]

\* the capture tick that lets owned windmills decay as well
tickWindmillDecaysOwned(mill, red, blue) ==
    IF red >= 1 /\ blue >= 1 THEN mill
    ELSE IF CapturingTeam(red, blue) = NoTeam
    THEN IF mill.progress > 0
         THEN [mill EXCEPT !.progress = Max(0, @ - DecayStep),
                           !.contestingTeam =
                               IF mill.progress - DecayStep <= 0 THEN NoTeam ELSE @]
         ELSE mill
    ELSE IF mill.team = CapturingTeam(red, blue) THEN mill
    ELSE LET base == IF mill.contestingTeam # CapturingTeam(red, blue)
                     THEN [mill EXCEPT !.progress = 0,
                                       !.contestingTeam = CapturingTeam(red, blue)]
                     ELSE mill
             progress == Min(PROGRESS_FULL, base.progress + CaptureStep)
         IN  [base EXCEPT !.progress = progress,
                          !.team = IF progress = PROGRESS_FULL
                                   THEN CapturingTeam(red, blue) ELSE @]

\* the capture tick for one windmill with red and blue occupants:
\* both teams present, nothing changes; nobody present, an unowned windmill
\* decays; the owner alone, nothing changes; another team alone, it takes over
\* the contest from progress 0, accumulates, and owns the windmill at full
\* progress
tickWindmill(mill, red, blue) ==
    IF red >= 1 /\ blue >= 1 THEN mill
    ELSE IF CapturingTeam(red, blue) = NoTeam
    THEN IF mill.team = NoTeam /\ mill.progress > 0
         THEN [mill EXCEPT !.progress = Max(0, @ - DecayStep),
                           !.contestingTeam =
                               IF mill.progress - DecayStep <= 0 THEN NoTeam ELSE @]
         ELSE mill
    ELSE IF mill.team = CapturingTeam(red, blue) THEN mill
    ELSE LET base == IF mill.contestingTeam # CapturingTeam(red, blue)
                     THEN [mill EXCEPT !.progress = 0,
                                       !.contestingTeam = CapturingTeam(red, blue)]
                     ELSE mill
             progress == Min(PROGRESS_FULL, base.progress + CaptureStep)
         IN  [base EXCEPT !.progress = progress,
                          !.team = IF progress = PROGRESS_FULL
                                   THEN CapturingTeam(red, blue) ELSE @]

\* the capture tick of a Game: every windmill independently
captureTick(game) ==
    [game EXCEPT !.windmills =
        [id \in WindmillIds |->
            tickWindmill(@[id], Cardinality(Occupants(game, id, "red")),
                                Cardinality(Occupants(game, id, "blue")))]]

\* the windmills in the state Owned(team): the team is the owner and progress
\* is full.  A windmill another team is taking over keeps its owner while its
\* progress, reset by the takeover, is below full: it is in the state Capturing
Owned(game, team) ==
    {id \in WindmillIds : /\ game.windmills[id].team = team
                          /\ game.windmills[id].progress = PROGRESS_FULL}

\* a scoring tick that pays the team capturing a windmill as well
scoreTickPaysContest(game) ==
    [game EXCEPT !.scores =
        [red |-> @.red + Cardinality({id \in WindmillIds :
                     "red" \in {game.windmills[id].team, game.windmills[id].contestingTeam}}),
         blue |-> @.blue + Cardinality({id \in WindmillIds :
                     "blue" \in {game.windmills[id].team, game.windmills[id].contestingTeam}})]]

\* the scoring tick of a Game: one point to the owner of every Owned windmill
scoreTick(game) ==
    [game EXCEPT !.scores = [red |-> @.red + Cardinality(Owned(game, "red")),
                             blue |-> @.blue + Cardinality(Owned(game, "blue"))]]

\* isEnded with a strict comparison
isEndedStrict(game, t) == t - game.startTime > MATCH_DURATION

\* isEnded(), when Date.now() = t
isEnded(game, t) == t - game.startTime >= MATCH_DURATION

----------------------------------------------------------------------------
\* The games Map and the Game objects

\* games.has(id)
HasGame(gs, id) == \E i \in 1..Len(gs) : gs[i].id = id

\* games.get(id): the Game object, 0 for undefined
GetGame(gs, id) ==
    IF HasGame(gs, id) THEN gs[CHOOSE i \in 1..Len(gs) : gs[i].id = id].obj ELSE 0

\* games.set(id, obj): an existing key keeps its place in the iteration order
SetGame(gs, id, obj) ==
    IF HasGame(gs, id)
    THEN [i \in 1..Len(gs) |-> IF gs[i].id = id THEN [id |-> id, obj |-> obj] ELSE gs[i]]
    ELSE Append(gs, [id |-> id, obj |-> obj])

\* games.delete(id)
DeleteGame(gs, id) == SelectSeq(gs, LAMBDA e : e.id # id)

\* a reference no live object has
FreshObj(hp) == CHOOSE o \in 1..(Cardinality(DOMAIN hp) + 1) : o \notin DOMAIN hp

\* the objects still referenced: by the games Map or by a pending respawn closure
Live(hp, gs, tm) ==
    LET refs == {gs[i].obj : i \in 1..Len(gs)} \cup {tm[i].obj : i \in 1..Len(tm)}
    IN  [o \in DOMAIN hp \cap refs |-> hp[o]]

\* HasRoom with the size test off by one
HasRoomInclusive(game) ==
    Cardinality(DOMAIN game.players) <= PLAYERS_PER_GAME /\ game.status = "waiting"

\* the condition of findOrCreateGame's loop
HasRoom(game) ==
    Cardinality(DOMAIN game.players) < PLAYERS_PER_GAME /\ game.status = "waiting"

\* findOrCreateGame that keeps scanning and returns the last game with room
findOrCreateGameLast(gs, hp, t) ==
    IF \E i \in 1..Len(gs) : HasRoom(hp[gs[i].obj])
    THEN LET last == CHOOSE i \in 1..Len(gs) :
                        /\ HasRoom(hp[gs[i].obj])
                        /\ \A j \in (i + 1)..Len(gs) : ~HasRoom(hp[gs[j].obj])
         IN  [games |-> gs, heap |-> hp, obj |-> gs[last].obj, created |-> FALSE]
    ELSE LET obj == FreshObj(hp)
         IN  [games |-> SetGame(gs, t, obj),
              heap |-> (obj :> NewGame(t, t)) @@ hp,
              obj |-> obj,
              created |-> TRUE]

\* findOrCreateGame(), when Date.now() = t: the Map and the objects afterwards,
\* the returned Game, and whether it was created
findOrCreateGame(gs, hp, t) ==
    IF \E i \in 1..Len(gs) : HasRoom(hp[gs[i].obj])
    THEN LET first == CHOOSE i \in 1..Len(gs) :
                        /\ HasRoom(hp[gs[i].obj])
                        /\ \A j \in 1..(i - 1) : ~HasRoom(hp[gs[j].obj])
         IN  [games |-> gs, heap |-> hp, obj |-> gs[first].obj, created |-> FALSE]
    ELSE LET obj == FreshObj(hp)
         IN  [games |-> SetGame(gs, t, obj),
              heap |-> (obj :> NewGame(t, t)) @@ hp,
              obj |-> obj,
              created |-> TRUE]

\* getGameState() of the Game object o, when Date.now() = t.  The returned
\* object holds a new array of references to the player objects of the Map
\* and a reference to the Game's scores object; the other fields are values.
getGameState(o, t) ==
    [id |-> heap[o].id,
     players |-> {[obj |-> o, id |-> q] : q \in DOMAIN heap[o].players},
     scores |-> [obj |-> o],
     timeRemaining |-> Max(0, MATCH_DURATION - (t - heap[o].startTime)),
     status |-> heap[o].status]

\* what the player object behind a reference holds once the Game objects are
\* hp: a handler mutates the object in place while it is in the Map, and
\* removePlayer takes it out of the Map without touching it
ReadPlayer(ref, hp) ==
    IF ref.id \in DOMAIN hp[ref.obj].players
    THEN hp[ref.obj].players[ref.id]
    ELSE heap[ref.obj].players[ref.id]

\* what a reader of the object getGameState returned finds in it once the
\* Game objects are hp
Contents(state, hp) ==
    [id |-> state.id,
     players |-> {ReadPlayer(ref, hp) : ref \in state.players},
     scores |-> hp[state.scores.obj].scores,
     timeRemaining |-> state.timeRemaining,
     status |-> state.status]

----------------------------------------------------------------------------
\* Socket handlers.  Each operator gives the state after the handler has run
\* to completion, as a record of the variables it may change.

Emit(name, to) == [name |-> name, to |-> to]

Unchanged(e) ==
    [games |-> games, heap |-> heap, players |-> players, timers |-> timers, ev |-> e]

\* socket.on('joinGame'): username is the payload, rx and rz the random draws
OnJoinGame(s, username, rx, rz) ==
    LET sanitizedUsername == sanitizeInput(username) IN
    IF ~isValidUsername(sanitizedUsername)
    THEN Unchanged([op |-> "joinGame", path |-> "invalid", obj |-> 0,
                    created |-> FALSE, team |-> "none",
                    out |-> {Emit("error", "socket")}])
    ELSE
      LET found == findOrCreateGame(games, heap, now)
          added == addPlayer(found.heap[found.obj], s, sanitizedUsername, rx, rz)
      IN  [games |-> found.games,
           heap |-> [found.heap EXCEPT ![found.obj] = added.game],
           players |-> (s :> [gameId |-> added.game.id, username |-> sanitizedUsername])
                         @@ players,
           timers |-> timers,
           ev |-> [op |-> "joinGame", path |-> "joined", obj |-> found.obj,
                   created |-> found.created, team |-> added.team,
                   out |-> {Emit("gameJoined", "socket"), Emit("playerJoined", "others")}]]

\* a message that carries no gameId
NoId == 0 - 1

\* a || b for game ids: an id of a game is the non-empty string
\* `game_${Date.now()}`, which is truthy; an absent id is not
OrId(a, b) == IF a # NoId THEN a ELSE b

\* the lookup with its operands swapped: data.gameId || playerInfo.gameId
GameForPayloadFirst(s, dataGameId) ==
    IF s \in DOMAIN players
    THEN GetGame(games, OrId(dataGameId, players[s].gameId))
    ELSE 0

\* games.get(playerInfo.gameId || data?.gameId) after playerInfo =
\* players.get(socket.id): 0 when either lookup fails
GameFor(s, dataGameId) ==
    IF s \in DOMAIN players
    THEN GetGame(games, OrId(players[s].gameId, dataGameId))
    ELSE 0

\* the lookup for a message that carries no gameId
GameOf(s) == GameFor(s, NoId)

\* socket.on('position'): data = {position, rotation, energy}
OnPosition(s, position, rotation, energy) ==
    LET obj == GameOf(s)
        quiet == [op |-> "position", path |-> "noGame", ok |-> FALSE, out |-> {}]
    IN
    IF s \notin DOMAIN players THEN Unchanged([quiet EXCEPT !.path = "noPlayer"])
    ELSE IF obj = 0 THEN Unchanged(quiet)
    ELSE
      LET moved == updatePlayerPosition(heap[obj], s, position, rotation, energy)
      IN  [games |-> games,
           heap |-> [heap EXCEPT ![obj] = moved.game],
           players |-> players,
           timers |-> timers,
           ev |-> IF moved.ok
                  THEN [quiet EXCEPT !.path = "moved", !.ok = TRUE,
                                     !.out = {Emit("playerMoved", "others")}]
                  ELSE [quiet EXCEPT !.path = "rejected"]]

\* data.damage || DEFAULT_DAMAGE, clamped to [0, MAX_HEALTH]
ShootDamage(damage) ==
    MathMinHi(MathMax0(IF Truthy(damage) THEN damage ELSE Num(DEFAULT_DAMAGE)), MAX_HEALTH)

\* the friendly-fire test switched off
NeverSameTeam(game, attackerId, targetId) == FALSE

\* the friendly-fire test of the shoot handler: attacker.team === target.team
SameTeam(game, attackerId, targetId) ==
    game.players[attackerId].team = game.players[targetId].team

\* socket.on('shoot'): data = {targetId, damage}
OnShoot(s, targetId, dataDamage) ==
    LET obj == GameOf(s)
        quiet == [op |-> "shoot", path |-> "noGame", killed |-> FALSE, out |-> {}]
    IN
    IF s \notin DOMAIN players THEN Unchanged([quiet EXCEPT !.path = "noPlayer"])
    ELSE IF obj = 0 THEN Unchanged(quiet)
    ELSE IF s \notin DOMAIN heap[obj].players \/ targetId \notin DOMAIN heap[obj].players
    THEN Unchanged([quiet EXCEPT !.path = "unknown"])
    ELSE IF SameTeam(heap[obj], s, targetId)
    THEN Unchanged([quiet EXCEPT !.path = "friendlyFire"])
    ELSE
      LET damage == ShootDamage(dataDamage)
          hit == handlePlayerHit(heap[obj], s, targetId, damage)
      IN  [games |-> games,
           heap |-> [heap EXCEPT ![obj] = hit.game],
           players |-> players,
           timers |-> IF hit.scheduled
                      THEN Append(timers, [obj |-> obj, playerId |-> targetId,
                                           due |-> now + RESPAWN_DELAY])
                      ELSE timers,
           ev |-> [quiet EXCEPT !.path = IF hit.applied THEN "hit" ELSE "ignored",
                                !.killed = hit.killed,
                                !.out = {Emit("playerHit", "room")}]]

\* a chat payload without username, and data.username || playerInfo.username
\* after sanitizeInput: a username of the payload that is a non-empty string
\* is used, otherwise the name registered at the join
NoUsername == [str |-> FALSE, s |-> <<>>]
ChatUsername(dataUsername, registered) ==
    IF dataUsername.str /\ dataUsername.s # <<>>
    THEN sanitizeInput(dataUsername)
    ELSE sanitizeInput([str |-> TRUE, s |-> registered])

\* socket.on('chatMessage'): data = {message, username}; username in ev is the
\* sender name of the relayed message
OnChatMessageNamed(s, message, username) ==
    LET quiet == [op |-> "chatMessage", path |-> "noGame", out |-> {}, username |-> <<>>]
        text == sanitizeInput(message)
    IN
    IF s \notin DOMAIN players THEN Unchanged([quiet EXCEPT !.path = "noPlayer"])
    ELSE IF GameOf(s) = 0 THEN Unchanged(quiet)
    ELSE IF text = <<>> \/ Len(text) > CHAT_MESSAGE_MAX_LENGTH
    THEN Unchanged([quiet EXCEPT !.path = "dropped"])
    ELSE Unchanged([quiet EXCEPT !.path = "sent", !.out = {Emit("chatMessage", "room")},
                                 !.username = ChatUsername(username, players[s].username)])

\* the chat handler without its lookups of the sender and the game
OnChatMessageAnyone(s, message) ==
    Unchanged([op |-> "chatMessage", path |-> "sent", out |-> {Emit("chatMessage", "room")},
               username |-> <<>>])

\* socket.on('chatMessage'): data = {message}
OnChatMessage(s, message) == OnChatMessageNamed(s, message, NoUsername)

\* socket.on('disconnect')
OnDisconnect(s) ==
    LET quiet == [op |-> "disconnect", path |-> "noPlayer", out |-> {}] IN
    IF s \notin DOMAIN players THEN Unchanged(quiet)
    ELSE
      LET obj == GameOf(s)
          forgotten == [q \in DOMAIN players \ {s} |-> players[q]]
      IN  IF obj = 0
          THEN [games |-> games, heap |-> heap, players |-> forgotten,
                timers |-> timers, ev |-> [quiet EXCEPT !.path = "noGame"]]
          ELSE
            LET left == removePlayer(heap[obj], s)
                empty == Cardinality(DOMAIN left.players) = 0
            IN  [games |-> IF empty THEN DeleteGame(games, left.id) ELSE games,
                 heap |-> [heap EXCEPT ![obj] = left],
                 players |-> forgotten,
                 timers |-> timers,
                 ev |-> [quiet EXCEPT !.path = IF empty THEN "gameRemoved" ELSE "left",
                                      !.out = {Emit("playerLeft", "others")}]]

\* the setTimeout callback of handlePlayerHit: () => this.respawnPlayer(targetId)
OnRespawnTimer(timer, rx, rz) ==
    [games |-> games,
     heap |-> [heap EXCEPT ![timer.obj] = respawnPlayer(@, timer.playerId, rx, rz)],
     players |-> players,
     timers |-> Tail(timers),
     ev |-> [op |-> "respawnPlayer",
             path |-> IF timer.playerId \in DOMAIN heap[timer.obj].players
                      THEN "respawned" ELSE "gone",
             out |-> {}]]

\* a cleanup that removes empty games only
SurvivesSweepWhateverAge(game, t) == ~(Cardinality(DOMAIN game.players) = 0)

\* the game stays registered when the cleanup callback meets it at time t
SurvivesSweep(game, t) == ~(isEnded(game, t) \/ Cardinality(DOMAIN game.players) = 0)

\* the setInterval callback: deletes every ended or empty game from the Map
OnSweep ==
    LET kept == SelectSeq(games, LAMBDA e : SurvivesSweep(heap[e.obj], now))
    IN  [games |-> kept,
         heap |-> heap,
         players |-> players,
         timers |-> timers,
         ev |-> [op |-> "sweep",
                 path |-> IF kept = games THEN "nothing" ELSE "cleaned",
                 out |-> {}]]

\* the capture setInterval callback of the Game object o: the tick, and a
\* windmillUpdate to the room with the windmills that changed
OnCaptureTick(o) ==
    LET after == captureTick(heap[o])
        changed == {id \in WindmillIds : after.windmills[id] # heap[o].windmills[id]}
    IN  [games |-> games,
         heap |-> [heap EXCEPT ![o] = after],
         players |-> players,
         timers |-> timers,
         ev |-> [op |-> "captureTick", path |-> IF changed = {} THEN "still" ELSE "changed",
                 obj |-> o, changed |-> changed,
                 out |-> IF changed = {} THEN {} ELSE {Emit("windmillUpdate", "room")}]]

\* the scoring setInterval callback of the Game object o
OnScoreTick(o) ==
    [games |-> games,
     heap |-> [heap EXCEPT ![o] = scoreTick(@)],
     players |-> players,
     timers |-> timers,
     ev |-> [op |-> "scoreTick", path |-> "scored", obj |-> o,
             out |-> {Emit("windmillScore", "room")}]]

----------------------------------------------------------------------------
\* Actions: one per handler or callback

Apply(r) ==
    /\ ev' = r.ev
    /\ timers' = r.timers
    /\ players' = r.players
    /\ games' = r.games
    /\ heap' = Live(r.heap, r.games, r.timers)

\* the clock advances in steps of ClockStep, up to MaxNow
ClockStep == RESPAWN_DELAY \div 2
MaxNow == MaxClockSteps * ClockStep

\* socket.join(game.id) of the joinGame handler whose result is r
JoinedRooms(s, r) ==
    IF r.ev.path = "joined" THEN rooms \cup {<<r.players[s].gameId, s>>} ELSE rooms

\* socket.io takes a socket that disconnects out of every room
LeftRooms(s) == {m \in rooms : m[2] # s}

\* the sockets io.to(room).emit reaches, and those socket.to(room).emit reaches
InRoom(room) == {m[2] : m \in {n \in rooms : n[1] = room}}
OthersInRoom(room, s) == InRoom(room) \ {s}

\* Socket ids are interchangeable, so the connections are numbered in the order
\* of their first message that matters: a socket joins only after every socket
\* with a lower id has joined or gone
Used(s) == s \in DOMAIN players \/ s \in closed

JoinGame(s, username, rx, rz) ==
    /\ s \notin closed
    /\ \A q \in 1..(s - 1) : Used(q)
    /\ Apply(OnJoinGame(s, username, rx, rz))
    /\ rooms' = JoinedRooms(s, OnJoinGame(s, username, rx, rz))
    /\ UNCHANGED <<now, closed, sweepAt>>

\* the first joinGame of a connection, and a joinGame it sends again
FirstJoin(s, username, rx, rz) ==
    s \notin DOMAIN players /\ JoinGame(s, username, rx, rz)

Rejoin(s, username, rx, rz) ==
    s \in DOMAIN players /\ JoinGame(s, username, rx, rz)

Position(s, position, rotation, energy) ==
    /\ s \notin closed
    /\ Apply(OnPosition(s, position, rotation, energy))
    /\ UNCHANGED <<now, closed, sweepAt, rooms>>

\* a shot is explored unless the respawn it schedules exceeds the bounds
Shoot(s, targetId, damage) ==
    /\ s \notin closed
    /\ LET after == OnShoot(s, targetId, damage).timers
       IN  /\ Len(after) <= MaxTimers
           /\ \A i \in 1..Len(after) : after[i].due <= MaxNow
    /\ Apply(OnShoot(s, targetId, damage))
    /\ UNCHANGED <<now, closed, sweepAt, rooms>>

ChatMessage(s, message) ==
    /\ s \notin closed
    /\ Apply(OnChatMessage(s, message))
    /\ UNCHANGED <<now, closed, sweepAt, rooms>>

ChatMessageNamed(s, message, username) ==
    /\ s \notin closed
    /\ Apply(OnChatMessageNamed(s, message, username))
    /\ UNCHANGED <<now, closed, sweepAt, rooms>>

Disconnect(s) ==
    /\ s \notin closed
    /\ Apply(OnDisconnect(s))
    /\ closed' = closed \cup {s}
    /\ rooms' = LeftRooms(s)
    /\ UNCHANGED <<now, sweepAt>>

\* Node runs a timeout callback once its delay has elapsed, oldest first
RespawnTimer(rx, rz) ==
    /\ timers # <<>>
    /\ Head(timers).due <= now
    /\ Apply(OnRespawnTimer(Head(timers), rx, rz))
    /\ UNCHANGED <<now, closed, sweepAt, rooms>>

\* time passes: Date.now() grows by ClockStep, up to limit
Advance(limit) ==
    /\ now + ClockStep <= limit
    /\ now' = now + ClockStep
    /\ ev' = [op |-> "clock", path |-> "tick", out |-> {}]
    /\ UNCHANGED <<games, heap, players, timers, closed, sweepAt, rooms>>

\* a shot at any time up to limit, while fewer than MaxKills kills are scored
ShootUntil(s, targetId, damage, limit) ==
    /\ s \notin closed
    /\ \A o \in DOMAIN heap : heap[o].scores.red + heap[o].scores.blue < MaxKills
    /\ LET after == OnShoot(s, targetId, damage).timers
       IN  /\ Len(after) <= MaxTimers
           /\ \A i \in 1..Len(after) : after[i].due <= limit
    /\ Apply(OnShoot(s, targetId, damage))
    /\ UNCHANGED <<now, closed, sweepAt, rooms>>

\* the two interval callbacks of a registered Game; the scoring tick is
\* explored while the scores stay within limit
CaptureTick(o) ==
    /\ \E i \in 1..Len(games) : games[i].obj = o
    /\ Apply(OnCaptureTick(o))
    /\ UNCHANGED <<now, closed, sweepAt, rooms>>

ScoreTick(o, limit) ==
    /\ \E i \in 1..Len(games) : games[i].obj = o
    /\ \A t \in Teams : OnScoreTick(o).heap[o].scores[t] <= limit
    /\ Apply(OnScoreTick(o))
    /\ UNCHANGED <<now, closed, sweepAt, rooms>>

\* Node runs the interval callback once its period has elapsed and arms it
\* again, one period after this run
Sweep ==
    /\ sweepAt <= now
    /\ Apply(OnSweep)
    /\ sweepAt' = now + SWEEP_INTERVAL
    /\ UNCHANGED <<now, closed, rooms>>

\* the time at which the next timer callback is due
NextDue == IF timers = <<>> THEN sweepAt ELSE Min(sweepAt, Head(timers).due)

\* time passes up to t, never past a callback that is due
Elapse(t, limit) ==
    /\ now < t /\ t <= NextDue /\ t <= limit
    /\ now' = t
    /\ ev' = [op |-> "clock", path |-> "tick", out |-> {}]
    /\ UNCHANGED <<games, heap, players, timers, closed, sweepAt, rooms>>

Init ==
    /\ now = 0
    /\ games = <<>>
    /\ heap = EmptyMap
    /\ players = EmptyMap
    /\ timers = <<>>
    /\ closed = {}
    /\ sweepAt = SWEEP_INTERVAL
    /\ rooms = {}
    /\ ev = [op |-> "init", path |-> "init", out |-> {}]

----------------------------------------------------------------------------
\* The messages the model sends

Str(chars) == [str |-> TRUE, s |-> chars]

Name1 == Str(<<"a", "<", "7">>)
BadName == Str(<<"a", "!">>)
Origin == Pos(Num(0), Num(0), Num(0))
BadPosition == Pos(NaN, Num(0), Num(0))

\* The whole server with three connections; every connection joins, the
\* first one may join again
Sockets == 1..3
Rejoiners == {1}

Next ==
    \/ \E s \in Sockets, u \in {Name1, BadName} : FirstJoin(s, u, 0, 0)
    \/ \E s \in Rejoiners : Rejoin(s, Name1, 0, 0)
    \/ \E s \in Sockets, p \in {Origin, BadPosition} : Position(s, p, "r1", Num(150))
    \/ \E s, t \in Sockets : Shoot(s, t, Num(150))
    \/ \E s \in Sockets : Disconnect(s)
    \/ RespawnTimer(0, 0)
    \/ Advance(MaxNow)

Spec == Init /\ [][Next]_vars

\* The lobby: one connection more than a game holds; they join, the first and
\* the last may join again, and they leave
LobbySockets == 1..(PLAYERS_PER_GAME + 1)
LobbyRejoiners == {1, PLAYERS_PER_GAME + 1}

NextLobby ==
    \/ \E s \in LobbySockets : FirstJoin(s, Name1, 0, 0)
    \/ \E s \in LobbyRejoiners : Rejoin(s, Name1, 0, 0)
    \/ \E s \in LobbySockets : Disconnect(s)
    \/ Advance(LobbyClockSteps * ClockStep)

SpecLobby == Init /\ [][NextLobby]_vars

\* Combat among three connections (two of them on one team); the last one may
\* join again, which moves its record to the other team
CombatDamage == {Num(60), Num(150)}
CombatRejoiners == {3}

NextCombat ==
    \/ \E s \in Sockets : FirstJoin(s, Name1, 0, 0)
    \/ \E s \in CombatRejoiners : Rejoin(s, Name1, 0, 0)
    \/ \E s, t \in Sockets, d \in CombatDamage : Shoot(s, t, d)
    \/ \E s \in Sockets : Disconnect(s)
    \/ RespawnTimer(0, 0)
    \/ Advance(MaxNow)

SpecCombat == Init /\ [][NextCombat]_vars

\* A duel: two connections and every kind of requested damage
Duellists == 1..2
DamageInputs == {Num(0 - 5), Num(0), Num(60), Num(150), Undef}

NextDuel ==
    \/ \E s \in Duellists : FirstJoin(s, Name1, 0, 0)
    \/ \E s \in Rejoiners : Rejoin(s, Name1, 0, 0)
    \/ \E s, t \in Duellists, d \in DamageInputs : Shoot(s, t, d)
    \/ \E s \in Duellists : Disconnect(s)
    \/ RespawnTimer(0, 0)
    \/ Advance(MaxNow)

SpecDuel == Init /\ [][NextDuel]_vars

\* The duel with the scheduling Node guarantees: time passes, and a timeout
\* callback whose delay has elapsed is run
SpawnDraws == {0, SPAWN_SPREAD - 1}

NextRespawn ==
    \/ \E s \in Duellists, rx \in SpawnDraws : FirstJoin(s, Name1, rx, 0)
    \/ \E s \in Rejoiners : Rejoin(s, Name1, 0, 0)
    \/ \E s, t \in Duellists : Shoot(s, t, Num(150))
    \/ \E s \in Duellists : Position(s, Origin, "r1", Num(50))
    \/ \E s \in Duellists : Disconnect(s)
    \/ \E rx, rz \in SpawnDraws : RespawnTimer(rx, rz)
    \/ Advance(MaxNow)

SpecRespawn ==
    /\ Init
    /\ [][NextRespawn]_vars
    /\ WF_vars(Advance(MaxNow))
    /\ WF_vars(\E rx, rz \in SpawnDraws : RespawnTimer(rx, rz))

Movers == {1}

\* Movement: two connections fight and the first one sends position updates
\* of every kind.
\* Edge lies exactly MAX_POSITION_CHANGE_PER_FRAME from Origin and from Far;
\* Far and Origin are further apart than that.  An absent field is Undef; an
\* infinity is what JSON.parse makes of 1e999.
Edge == Pos(Num(30), Num(5), Num(40))
Far == Pos(Num(60), Num(7), Num(0))
FarNoY == Pos(Num(60), Undef, Num(0))
NoY == Pos(Num(0), Undef, Num(0))
HighY == Pos(Num(0), PosInf, Num(0))
ValidPositions == {Origin, Edge, Far, FarNoY, NoY, HighY}
InvalidPositions ==
    {Pos(NaN, Num(0), Num(0)), Pos(PosInf, Num(0), Num(0)), Pos(Undef, Num(0), Num(0)),
     Pos(Num(0), Num(0), NaN), Pos(Num(0), Num(0), NegInf), Pos(Num(0), Num(0), Undef),
     NullPos}
EnergyInputs == {Num(0 - 5), Num(0), Num(50), Num(150), PosInf, NegInf, Undef}
MoveDamage == {Num(0 - 5), Num(60), Num(150), PosInf}

\* the position messages: every valid position without energy, every energy
\* at Origin, and every invalid position with a rotation and an energy of its own
Message(p, r, e) == [position |-> p, rotation |-> r, energy |-> e]
MoveMessages ==
    {Message(p, "r1", Undef) : p \in ValidPositions}
        \cup {Message(Origin, "r1", e) : e \in EnergyInputs}
        \cup {Message(p, "r2", Num(70)) : p \in InvalidPositions}

\* a shot with requested damage 0, explored against targets at full health
Graze(s, t) ==
    /\ \A o \in DOMAIN heap : t \in DOMAIN heap[o].players =>
                                 heap[o].players[t].health = MAX_HEALTH
    /\ Shoot(s, t, Num(0))

NextMove ==
    \/ \E s \in Duellists : FirstJoin(s, Name1, 0, 0)
    \/ \E s \in Movers, m \in MoveMessages :
          Position(s, m.position, m.rotation, m.energy)
    \/ \E s, t \in Duellists, d \in MoveDamage : Shoot(s, t, d)
    \/ \E s, t \in Duellists : Graze(s, t)
    \/ \E s \in Duellists : Disconnect(s)
    \/ RespawnTimer(0, 0)
    \/ Advance(MaxNow)

SpecMove == Init /\ [][NextMove]_vars

\* The duel over whole matches, with the scheduling Node guarantees: time
\* passes, never past a timer callback that is due, and a due callback is run.
\* Time moves to the next callback that is due, or to shortly before it.  Connections arrive until JoinHorizon, which leaves
\* every game its match duration and a cleanup period before SweepHorizon.
SweepHorizon == MaxSweeps * SWEEP_INTERVAL
JoinHorizon == SweepHorizon - MATCH_DURATION - SWEEP_INTERVAL
Instants == {NextDue - ClockStep, NextDue}

Arrive(s) == now <= JoinHorizon /\ FirstJoin(s, Name1, 0, 0)

Pass == \E t \in Instants : Elapse(t, SweepHorizon)

NextSweep ==
    \/ \E s \in Duellists : Arrive(s)
    \/ \E s, t \in Duellists : ShootUntil(s, t, Num(150), SweepHorizon)
    \/ \E s \in Movers : Position(s, Origin, "r1", Num(50))
    \/ \E s \in Duellists : Disconnect(s)
    \/ RespawnTimer(0, 0)
    \/ Sweep
    \/ Pass

SpecSweep ==
    /\ Init
    /\ [][NextSweep]_vars
    /\ WF_vars(Pass)
    /\ WF_vars(Sweep)
    /\ WF_vars(RespawnTimer(0, 0))

\* The duel over whole matches with a third connection that never joins:
\* the first and the third connection chat, and the third one also moves,
\* shoots, is shot at and leaves
Visitors == 1..3
Strangers == {3}
Hello == Str(<<"h", "<", "i">>)
Markup == Str(<<"<", ">">>)
LongMessage == Str([i \in 1..(CHAT_MESSAGE_MAX_LENGTH + 1) |-> "x"])
NoMessage == [str |-> FALSE, s |-> <<>>]
ChatInputs == {Hello, Markup, LongMessage, NoMessage}

Chatters == {1, 3}

NextStray ==
    \/ \E s \in Duellists : Arrive(s)
    \/ \E s, t \in Duellists : ShootUntil(s, t, Num(150), SweepHorizon)
    \/ \E s \in Duellists : Disconnect(s)
    \/ RespawnTimer(0, 0)
    \/ Sweep
    \/ Pass
    \/ \E s \in Chatters, m \in ChatInputs : ChatMessage(s, m)
    \/ \E s \in Strangers : Position(s, Origin, "r1", Num(50))
    \/ \E s \in Strangers, t \in Visitors : ShootUntil(s, t, Num(150), SweepHorizon)
    \/ \E s \in Duellists, t \in Strangers : ShootUntil(s, t, Num(150), SweepHorizon)
    \/ \E s \in Strangers : Disconnect(s)

SpecStray == Init /\ [][NextStray]_vars

\* Two sessions: one connection more than a game holds join, at one clock
\* value or at several.  The first connection may join again when its game is
\* full.  The first and the last connection shoot, at each other and at the
\* second, and they move, chat and leave.
\* Chat payloads may carry a username: an empty one, or a name nobody registered.
EmptyUsername == [str |-> TRUE, s |-> <<>>]
OtherName == [str |-> TRUE, s |-> <<"B">>]
ChatNames == {EmptyUsername, OtherName}
RoomSockets == 1..(PLAYERS_PER_GAME + 1)
Crossers == {1, PLAYERS_PER_GAME + 1}
RoomTargets == {1, 2, PLAYERS_PER_GAME + 1}

Return(s) ==
    /\ GameOf(s) # 0
    /\ Cardinality(DOMAIN heap[GameOf(s)].players) = PLAYERS_PER_GAME
    /\ Rejoin(s, Name1, 0, 0)

NextRooms ==
    \/ \E s \in RoomSockets : FirstJoin(s, Name1, 0, 0)
    \/ \E s \in Rejoiners : Return(s)
    \/ \E s \in Crossers : Position(s, Edge, "r1", Num(50))
    \/ \E s \in Crossers, t \in RoomTargets : Shoot(s, t, Num(150))
    \/ \E s \in Crossers : ChatMessage(s, Hello)
    \/ \E s \in Crossers, u \in ChatNames : ChatMessageNamed(s, Hello, u)
    \/ \E s \in Crossers : Disconnect(s)
    \/ RespawnTimer(0, 0)
    \/ Advance(MaxNow)

SpecRooms == Init /\ [][NextRooms]_vars

\* Capture: two connections, one on each team.  The first (red) flies between
\* the North windmill, its rim, the Hill windmill and the origin, the second
\* (blue) between the North windmill and the origin; the capture and scoring ticks of
\* their Game run, and the first connection may shoot the second.
\* NorthRim lies exactly CAPTURE_RADIUS from the North windmill, high above it.
North == Pos(Num(0), Num(0), Num(0 - 300))
NorthRim == Pos(Num(30), Num(500), Num(0 - 260))
Hill == Pos(Num(200), Num(0), Num(0 - 200))
Flight(s, p) == [socket |-> s, position |-> p]
Flights == {Flight(1, North), Flight(1, NorthRim), Flight(1, Hill), Flight(1, Origin),
            Flight(2, North), Flight(2, Origin)}
CaptureObjs == 1..2
MaxScore == 3

NextCapture ==
    \/ \E s \in Duellists : FirstJoin(s, Name1, 0, 0)
    \/ \E f \in Flights : Position(f.socket, f.position, "r1", Undef)
    \/ \E o \in CaptureObjs : CaptureTick(o)
    \/ \E o \in CaptureObjs : ScoreTick(o, MaxScore)
    \/ \E s \in Movers, t \in Duellists : Shoot(s, t, Num(150))

SpecCapture == Init /\ [][NextCapture]_vars

\* Cleanup in the lobby: one connection more than a game holds, so that two
\* games of different age are registered; the first and the last may leave
CleanupLeavers == {1, PLAYERS_PER_GAME + 1}

NextCleanup ==
    \/ \E s \in LobbySockets : Arrive(s)
    \/ \E s \in CleanupLeavers : Disconnect(s)
    \/ Sweep
    \/ Pass

SpecCleanup == Init /\ [][NextCleanup]_vars

----------------------------------------------------------------------------
\* Properties

Size(set) == Cardinality(set)

\* C1: in every session the red and blue rosters are disjoint, every id in a
\* roster has a PlayerRecord of that roster's team, and every PlayerRecord's id
\* is in the roster of its team.
RostersMatchRecords ==
    \A o \in DOMAIN heap :
        LET g == heap[o] IN
        /\ g.teams.red \cap g.teams.blue = {}
        /\ \A team \in Teams : \A id \in g.teams[team] :
              id \in DOMAIN g.players /\ g.players[id].team = team
        /\ \A id \in DOMAIN g.players : id \in g.teams[g.players[id].team]

\* C2: in every session the sizes of the red and blue rosters differ by at
\* most 1.
TeamsBalanced ==
    \A o \in DOMAIN heap :
        Size(heap[o].teams.red) - Size(heap[o].teams.blue) \in {0 - 1, 0, 1}

\* C3: a join puts the player on a team whose roster, measured before the
\* insertion, is no larger than the other, and on red when they are equal; the
\* returned team is the team of the new PlayerRecord and of the roster that
\* gained the id.
AddPlayerPicksSmallerTeam ==
    [][\A s \in LobbySockets :
          (ev'.op = "joinGame" /\ JoinGame(s, Name1, 0, 0)) =>
            LET before == IF ev'.created THEN NewGame(now, now) ELSE heap[ev'.obj]
                after == heap'[ev'.obj]
                team == ev'.team
            IN  /\ Size(before.teams[team]) <= Size(before.teams[OtherTeam(team)])
                /\ Size(before.teams.red) = Size(before.teams.blue) => team = "red"
                /\ after.players[s].team = team
                /\ after.teams[team] = before.teams[team] \cup {s}
                /\ after.teams[OtherTeam(team)] = before.teams[OtherTeam(team)]
      ]_vars

\* C3 witness: a join went to blue because red was the larger roster
JoinedSmallerTeam ==
    /\ ev.op = "joinGame" /\ ev.path = "joined" /\ ev.team = "blue"
    /\ Size(heap[ev.obj].teams.red) = 3
    /\ Size(heap[ev.obj].teams.blue) = 3

\* the registered games with status waiting and fewer players than the capacity
Open(gs, hp) ==
    {i \in 1..Len(gs) : /\ hp[gs[i].obj].status = "waiting"
                        /\ Size(DOMAIN hp[gs[i].obj].players) <= PLAYERS_PER_GAME - 1}

\* C4: findOrCreateGame returns a registered game with status waiting and fewer
\* players than the capacity: the first such game of the registry when there
\* is one, and a newly created and registered game only when there is none.
FindOrCreateReturnsOpenGame ==
    LET found == findOrCreateGame(games, heap, now)
        open == Open(games, heap)
    IN  /\ \E i \in 1..Len(found.games) : found.games[i].obj = found.obj
        /\ found.heap[found.obj].status = "waiting"
        /\ Size(DOMAIN found.heap[found.obj].players) < PLAYERS_PER_GAME
        /\ open # {} =>
              /\ ~found.created
              /\ found.games = games /\ found.heap = heap
              /\ \E i \in open : /\ found.obj = games[i].obj
                                 /\ \A j \in open : i <= j
        /\ open = {} =>
              /\ found.created
              /\ found.obj \notin DOMAIN heap
              /\ \A o \in DOMAIN heap : found.heap[o] = heap[o]

\* C4 witness: two games registered, both with room
TwoOpenGames == Size(Open(games, heap)) = 2

\* C5: no session ever holds more PlayerRecords than PLAYERS_PER_GAME.
CapacityRespected ==
    \A o \in DOMAIN heap : Size(DOMAIN heap[o].players) <= PLAYERS_PER_GAME

\* C5 witness: a join found the only game full and went to a new one
JoinedNewGameBesideFullOne ==
    /\ ev.op = "joinGame" /\ ev.path = "joined" /\ ev.created
    /\ \E o \in DOMAIN heap : Size(DOMAIN heap[o].players) = PLAYERS_PER_GAME

\* both sockets have a PlayerRecord in the game the shooter s is indexed to
InOneGame(s, t) ==
    /\ GameOf(s) # 0
    /\ s \in DOMAIN heap[GameOf(s)].players
    /\ t \in DOMAIN heap[GameOf(s)].players

Friends(s, t) ==
    InOneGame(s, t)
    /\ heap[GameOf(s)].players[s].team = heap[GameOf(s)].players[t].team

Enemies(s, t) ==
    InOneGame(s, t)
    /\ heap[GameOf(s)].players[s].team # heap[GameOf(s)].players[t].team

HealthOf(s, t) == heap[GameOf(s)].players[t].health

\* a shoot step that changed no game, scheduled nothing and reported no kill
ShotChangedNothing == heap' = heap /\ timers' = timers /\ ~ev'.killed

\* C6: a hit between two players of one team (attacker = target included)
\* changes no health, kills, deaths or score, reports no kill and schedules no
\* respawn, whatever the damage.  Stated contrapositively: a shoot step that
\* changed something is not a shot at a team mate.
FriendlyFireChangesNothing ==
    [][(ev'.op = "shoot" /\ ~ShotChangedNothing) =>
          \A s, t \in Sockets, d \in CombatDamage : ~(Friends(s, t) /\ Shoot(s, t, d))
      ]_vars

\* C6 witness: a shot at a team mate has been handled, with both teams manned
FriendlyFireHandled ==
    /\ ev.op = "shoot" /\ ev.path = "friendlyFire"
    /\ \E o \in DOMAIN heap : Size(DOMAIN heap[o].players) = 3

\* C7: a hit with requested damage d on a living enemy with health h leaves
\* the health at max(0, h - min(max(0, d), MAX_HEALTH)).
DamageIsClampedRequest ==
    [][\A s, t \in Duellists, d \in DamageInputs :
          (/\ ev'.op = "shoot" /\ d.k = "num"
           /\ Enemies(s, t) /\ HealthOf(s, t) > 0
           /\ Shoot(s, t, d)) =>
            heap'[GameOf(s)].players[t].health =
                Max(0, HealthOf(s, t) - Min(Max(0, d.v), MAX_HEALTH))
      ]_vars

\* C8: a hit that brings a living enemy to health 0 adds exactly 1 to the
\* attacker's kills, the target's deaths and the attacker's team score,
\* schedules one respawn and returns true; a hit that leaves health above 0
\* changes no kills, deaths or score, schedules nothing and returns false.
\* (A shoot step that changed nothing and reported no kill satisfies this, so
\* only the others are examined.)
KillIsCreditedOnce ==
    [][(ev'.op = "shoot" /\ ~ShotChangedNothing) =>
        \A s, t \in Sockets, d \in CombatDamage :
          (Enemies(s, t) /\ HealthOf(s, t) > 0 /\ Shoot(s, t, d)) =>
            LET o == GameOf(s)
                before == heap[o]
                after == heap'[o]
                team == before.players[s].team
                others == DOMAIN before.players
            IN  /\ DOMAIN after.players = others
                /\ IF after.players[t].health = 0
                   THEN /\ after.players[s].kills = before.players[s].kills + 1
                        /\ after.players[t].deaths = before.players[t].deaths + 1
                        /\ \A q \in others \ {s} :
                              after.players[q].kills = before.players[q].kills
                        /\ \A q \in others \ {t} :
                              after.players[q].deaths = before.players[q].deaths
                        /\ after.scores[team] = before.scores[team] + 1
                        /\ after.scores[OtherTeam(team)] = before.scores[OtherTeam(team)]
                        /\ timers' = Append(timers, [obj |-> o, playerId |-> t,
                                                     due |-> now + RESPAWN_DELAY])
                        /\ ev'.killed
                   ELSE /\ \A q \in others :
                              /\ after.players[q].kills = before.players[q].kills
                              /\ after.players[q].deaths = before.players[q].deaths
                        /\ after.scores = before.scores
                        /\ timers' = timers
                        /\ ~ev'.killed
      ]_vars

\* C8 witness: a kill has just been reported and its respawn is pending
KillReported ==
    /\ ev.op = "shoot" /\ ev.killed
    /\ timers # <<>>
    /\ \E o \in DOMAIN heap : \E q \in DOMAIN heap[o].players :
          heap[o].players[q].kills = 1 /\ heap[o].scores[heap[o].players[q].team] = 1

\* C9: a hit on an enemy whose health is already 0 changes no health, kills,
\* deaths or score, schedules no further respawn and returns false.  Stated
\* contrapositively: a shoot step that changed something is not a shot at a
\* dead enemy.
HitOnDeadTargetChangesNothing ==
    [][(ev'.op = "shoot" /\ ~ShotChangedNothing) =>
          \A s, t \in Sockets, d \in CombatDamage :
              ~(Enemies(s, t) /\ HealthOf(s, t) = 0 /\ Shoot(s, t, d))
      ]_vars

\* C9 witness: handlePlayerHit has just refused a hit while a respawn is pending
DeadTargetHitAgain ==
    /\ ev.op = "shoot" /\ ev.path = "ignored"
    /\ timers # <<>>

\* the spawn area of a team: the base point and the offsets
\* (Math.random() - 0.5) * SPAWN_SPREAD can add to x and z
InSpawnArea(team, p) ==
    LET base == IF team = "red" THEN RED_BASE_X ELSE BLUE_BASE_X
        half == SPAWN_SPREAD \div 2
    IN  /\ p.obj
        /\ p.x.k = "num" /\ base - half <= p.x.v /\ p.x.v <= base + half
        /\ p.y = Num(0)
        /\ p.z.k = "num" /\ 0 - half <= p.z.v /\ p.z.v <= half

\* a respawn scheduled by a kill of s has not fired yet
Pending(s) == \E i \in 1..Len(timers) : timers[i].playerId = s

\* the respawn callback at the head of the queue has just run for a player
\* who still has a record in the game it was scheduled for
RespawnFired ==
    /\ ev'.op = "respawnPlayer" /\ ev'.path = "respawned"
    /\ timers # <<>> /\ timers' = Tail(timers)
    /\ Head(timers).obj \in DOMAIN heap'

\* C10: the respawn scheduled by a kill eventually fires, no sooner than
\* RESPAWN_DELAY after the kill, and right after it fires for a player still in
\* the game, the player's health and energy are 100, the position lies in the
\* spawn area of the player's team and lastPosition is cleared.
RespawnRestoresPlayer ==
    /\ [][RespawnFired =>
            LET timer == Head(timers)
                rec == heap'[timer.obj].players[timer.playerId]
            IN  /\ now >= timer.due
                /\ rec.health = MAX_HEALTH
                /\ rec.energy = Num(MAX_ENERGY)
                /\ InSpawnArea(rec.team, rec.position)
                /\ rec.lastPosition = NullPos
         ]_vars
    /\ [][\A s, t \in Duellists :
            (ev'.op = "shoot" /\ ev'.killed /\ Shoot(s, t, Num(150))) =>
                /\ timers' # <<>>
                /\ timers'[Len(timers')].playerId = t
                /\ timers'[Len(timers')].due = now + RESPAWN_DELAY
         ]_vars
    /\ \A s \in Duellists : Pending(s) ~> ~Pending(s)

\* C10 witness: a killed player who had moved before has just been respawned
\* at the far corner of the blue spawn area
RespawnedAfterKill ==
    /\ ev.op = "respawnPlayer" /\ ev.path = "respawned"
    /\ now >= RESPAWN_DELAY
    /\ \E o \in DOMAIN heap : \E s \in DOMAIN heap[o].players :
          LET rec == heap[o].players[s]
          IN  /\ rec.deaths = 1 /\ rec.health = MAX_HEALTH
              /\ rec.team = "blue"
              /\ rec.position = Pos(Num(BLUE_BASE_X + SPAWN_SPREAD \div 2 - 1), Num(0),
                                    Num(SPAWN_SPREAD \div 2 - 1))
              /\ rec.lastPosition = NullPos

\* C11: the respawn callback of a player who disconnected after the kill
\* changes nothing: no Game object, no registry entry and no index entry
\* changes, and the player's record is not recreated.
LateRespawnChangesNothing ==
    [][(ev'.op = "respawnPlayer" /\ ev'.path = "gone") =>
          LET timer == Head(timers)
          IN  /\ timer.playerId \in closed
              /\ OnRespawnTimer(timer, 0, 0).heap = heap
              /\ \A o \in DOMAIN heap' : heap'[o] = heap[o]
              /\ games' = games
              /\ players' = players
      ]_vars

\* C11 witness: the callback has run for a player who left, in a game that
\* still has the killer in it
RespawnOfLeaverFired ==
    /\ ev.op = "respawnPlayer" /\ ev.path = "gone"
    /\ \E o \in DOMAIN heap : \E q \in DOMAIN heap[o].players :
          heap[o].players[q].kills = 1

\* the Game object is the value of some key of the games Map
Registered(obj) == \E i \in 1..Len(games) : games[i].obj = obj

\* C12: once a game has been removed from the registry its timers are
\* cancelled: a respawn callback never changes a game that is no longer
\* registered.
TimersOfRemovedGameChangeNothing ==
    [][(ev'.op = "respawnPlayer" /\ ~Registered(Head(timers).obj)) =>
          OnRespawnTimer(Head(timers), 0, 0).heap = heap
      ]_vars

\* the connection has a record in the game it is indexed to
Playing(s) == GameOf(s) # 0 /\ s \in DOMAIN heap[GameOf(s)].players

\* C13: a position update of a known player whose x or z is not a finite
\* number (or whose position is no object) fails: the whole PlayerRecord, and
\* every other, keeps its values and no playerMoved is broadcast.  Stated of
\* the position handler run in any reachable state on any such message.
InvalidPositionChangesNothing ==
    \A s \in Movers, m \in MoveMessages :
        (m.position \in InvalidPositions /\ Playing(s)) =>
            LET after == OnPosition(s, m.position, m.rotation, m.energy)
            IN  /\ ~updatePlayerPosition(heap[GameOf(s)], s, m.position,
                                         m.rotation, m.energy).ok
                /\ ~after.ev.ok
                /\ after.ev.out = {}
                /\ after.heap = heap
                /\ after.games = games /\ after.players = players

\* C13 witness: an invalid update has just been refused for a player who had
\* moved before
InvalidPositionRefused ==
    /\ ev.op = "position" /\ ev.path = "rejected"
    /\ \E o \in DOMAIN heap : \E q \in DOMAIN heap[o].players :
          heap[o].players[q].lastPosition = Edge /\ heap[o].players[q].energy = Num(50)

\* the planar distance between two positions exceeds MAX_POSITION_CHANGE_PER_FRAME
TooFar(p0, p1) ==
    (p1.x.v - p0.x.v) * (p1.x.v - p0.x.v) + (p1.z.v - p0.z.v) * (p1.z.v - p0.z.v)
        > MAX_POSITION_CHANGE_PER_FRAME * MAX_POSITION_CHANGE_PER_FRAME

\* C14: for a player with a lastPosition P0, an update to a valid position P1
\* succeeds and is broadcast, whatever the distance.  Further than the
\* maximum from P0, the committed position has the finite x and z of P1 and
\* the y of P1, or 0 where that is absent or 0; otherwise it is P1 itself.
\* lastPosition becomes the committed position.  Stated of the position
\* handler run in any reachable state on any valid message.
TeleportIsClampedNotRejected ==
    \A s \in Movers, m \in MoveMessages :
        (/\ m.position \in ValidPositions
         /\ Playing(s)
         /\ heap[GameOf(s)].players[s].lastPosition.obj) =>
            LET p0 == heap[GameOf(s)].players[s].lastPosition
                p1 == m.position
                after == OnPosition(s, m.position, m.rotation, m.energy)
                rec == after.heap[GameOf(s)].players[s]
            IN  /\ after.ev.ok
                /\ after.ev.out = {Emit("playerMoved", "others")}
                /\ rec.position.x.k = "num" /\ rec.position.z.k = "num"
                /\ rec.lastPosition = rec.position
                /\ rec.rotation = m.rotation
                /\ IF TooFar(p0, p1)
                   THEN /\ rec.position.x = p1.x /\ rec.position.z = p1.z
                        /\ rec.position.y = IF p1.y \in {Undef, Num(0)} THEN Num(0) ELSE p1.y
                   ELSE rec.position = p1

\* C14 witness: a jump from Origin to a position 60 away without a y has been
\* committed with y = 0
TeleportCommitted ==
    /\ ev.op = "position" /\ ev.path = "moved"
    /\ \E o \in DOMAIN heap : \E q \in DOMAIN heap[o].players :
          /\ heap[o].players[q].position = Pos(Num(60), Num(0), Num(0))
          /\ heap[o].players[q].lastPosition = Pos(Num(60), Num(0), Num(0))

\* C15: every PlayerRecord's health and energy lie in [0, 100], whatever
\* numeric damage and energy arrive, and a position update whose energy is
\* not a number leaves the stored energy as it was.
HealthAndEnergyInRange ==
    /\ \A o \in DOMAIN heap : \A q \in DOMAIN heap[o].players :
          LET rec == heap[o].players[q]
          IN  /\ rec.health \in 0..MAX_HEALTH
              /\ rec.energy.k = "num"
              /\ rec.energy.v \in 0..MAX_ENERGY
    /\ \A s \in Movers, m \in MoveMessages :
          (~IsNumber(m.energy) /\ Playing(s)) =>
              OnPosition(s, m.position, m.rotation, m.energy).heap[GameOf(s)].players[s].energy
                  = heap[GameOf(s)].players[s].energy

\* C15 witness: a player who was killed and respawned has since had the
\* energy clamped to 0 and been hit with requested damage 0 and 60
ClampedAfterRespawn ==
    \E o \in DOMAIN heap : \E q \in DOMAIN heap[o].players :
        /\ heap[o].players[q].deaths = 1
        /\ heap[o].players[q].energy = Num(0)
        /\ heap[o].players[q].health = 30

\* C16: every PlayerRecord's stored position has finite numeric x, y and z.
StoredPositionsFinite ==
    \A o \in DOMAIN heap : \A q \in DOMAIN heap[o].players :
        LET p == heap[o].players[q].position
        IN  p.obj /\ p.x.k = "num" /\ p.y.k = "num" /\ p.z.k = "num"

\* the game is empty, or its match duration has elapsed
EmptyOrOver(game) ==
    DOMAIN game.players = {} \/ now - game.startTime >= MATCH_DURATION

\* C17: right after a sweep the registry holds no game that is empty or whose
\* elapsed time is at least the match duration, and every game that was
\* neither is still registered, under its key and in its place among the
\* others, with players, rosters and scores unchanged.
SweepRemovesExactlyDeadGames ==
    [][ev'.op = "sweep" =>
          /\ \A i \in 1..Len(games') : ~EmptyOrOver(heap[games'[i].obj])
          /\ games' = SelectSeq(games, LAMBDA e : ~EmptyOrOver(heap[e.obj]))
          /\ \A i \in 1..Len(games') : heap'[games'[i].obj] = heap[games'[i].obj]
          /\ players' = players
      ]_vars

\* C17 witness: a sweep has just removed a game and kept a younger one
SweepKeptYoungerGame ==
    /\ ev.op = "sweep" /\ ev.path = "cleaned"
    /\ Len(games) = 1
    /\ now >= MATCH_DURATION

\* the references Game objects can have in the duel: one registered game and
\* the games kept alive by pending respawn callbacks, and one to spare
GameRefs == 1..(MaxTimers + 2)

\* C18: with the clock advancing and the sweep firing when due, no game is
\* registered for longer than MATCH_DURATION + SWEEP_INTERVAL after it was
\* created, and every registered game is eventually removed, whether or not
\* its players disconnect and whatever joins, hits and moves arrive.
EveryGameIsEventuallySwept ==
    /\ [](\A i \in 1..Len(games) :
            now - heap[games[i].obj].startTime <= MATCH_DURATION + SWEEP_INTERVAL)
    /\ \A o \in GameRefs : Registered(o) ~> ~Registered(o)

\* C18 witness: the sweep has removed a game both of whose players are still
\* connected, at the first sweep after its match duration had elapsed
SweptWithPlayersConnected ==
    /\ ev.op = "sweep" /\ ev.path = "cleaned"
    /\ closed = {}
    /\ DOMAIN players = Duellists
    /\ now = MATCH_DURATION + SWEEP_INTERVAL
    /\ games = <<>>

\* C19: a disconnect of a player deletes the connection's index entry.  When
\* it removes the last PlayerRecord of the game, the game leaves the registry
\* in the same step; otherwise the game stays registered and loses only the
\* leaving player's record and the entry in the roster of that player's team,
\* every other record, the other roster and the scores staying as they were.
\* Stated of the disconnect handler run in any reachable state.
DisconnectRemovesPlayerAndEmptyGame ==
    \A s \in Sockets : Playing(s) =>
        LET o == GameOf(s)
            g == heap[o]
            team == g.players[s].team
            after == OnDisconnect(s)
        IN  /\ DOMAIN after.players = DOMAIN players \ {s}
            /\ \A q \in DOMAIN after.players : after.players[q] = players[q]
            /\ \A x \in DOMAIN heap \ {o} : after.heap[x] = heap[x]
            /\ IF DOMAIN g.players = {s}
               THEN /\ \A i \in 1..Len(after.games) : after.games[i].obj # o
                    /\ after.games = SelectSeq(games, LAMBDA e : e.obj # o)
               ELSE /\ after.games = games
                    /\ DOMAIN after.heap[o].players = DOMAIN g.players \ {s}
                    /\ \A q \in DOMAIN g.players \ {s} :
                          after.heap[o].players[q] = g.players[q]
                    /\ after.heap[o].teams[team] = g.teams[team] \ {s}
                    /\ after.heap[o].teams[OtherTeam(team)] = g.teams[OtherTeam(team)]
                    /\ after.heap[o].scores = g.scores

\* C19 witness: the last of three players has just left and the game is gone
LastPlayerLeft ==
    /\ ev.op = "disconnect" /\ ev.path = "gameRemoved"
    /\ games = <<>>
    /\ closed = Sockets

\* the handler result r changes no game, registry entry or timer and emits
\* nothing
NoOp(r) == r.games = games /\ r.heap = heap /\ r.timers = timers /\ r.ev.out = {}

\* C20: operations on unknown ids are no-ops that report failure.  On a Game
\* without a record for the id, removePlayer changes nothing, and
\* updatePlayerPosition and handlePlayerHit change nothing and return false.
\* A position, shoot or chatMessage event from a connection that never joined
\* or whose game is no longer registered, and a shot at an id that has no
\* record in the shooter's game, change nothing and emit nothing; a
\* disconnect of such a connection only deletes its own index entry.  Stated
\* of the operations run in any reachable state.
UnknownIdsAreNoOps ==
    /\ \A o \in DOMAIN heap : \A id \in Visitors \ DOMAIN heap[o].players :
          /\ removePlayer(heap[o], id) = heap[o]
          /\ updatePlayerPosition(heap[o], id, Origin, "r1", Num(50))
                = [game |-> heap[o], ok |-> FALSE]
          /\ \A q \in Visitors :
                /\ handlePlayerHit(heap[o], id, q, Num(60)).game = heap[o]
                /\ ~handlePlayerHit(heap[o], id, q, Num(60)).killed
                /\ ~handlePlayerHit(heap[o], id, q, Num(60)).scheduled
                /\ handlePlayerHit(heap[o], q, id, Num(60)).game = heap[o]
                /\ ~handlePlayerHit(heap[o], q, id, Num(60)).killed
                /\ ~handlePlayerHit(heap[o], q, id, Num(60)).scheduled
    /\ \A s \in Visitors : GameOf(s) = 0 =>
          /\ NoOp(OnPosition(s, Origin, "r1", Num(50)))
          /\ OnPosition(s, Origin, "r1", Num(50)).players = players
          /\ ~OnPosition(s, Origin, "r1", Num(50)).ev.ok
          /\ \A t \in Visitors :
                /\ NoOp(OnShoot(s, t, Num(150)))
                /\ OnShoot(s, t, Num(150)).players = players
                /\ ~OnShoot(s, t, Num(150)).ev.killed
          /\ \A m \in ChatInputs :
                NoOp(OnChatMessage(s, m)) /\ OnChatMessage(s, m).players = players
          /\ NoOp(OnDisconnect(s))
          /\ OnDisconnect(s).players = [q \in DOMAIN players \ {s} |-> players[q]]
    /\ \A s, t \in Visitors :
          (Playing(s) /\ t \notin DOMAIN heap[GameOf(s)].players) =>
              /\ NoOp(OnShoot(s, t, Num(150)))
              /\ OnShoot(s, t, Num(150)).players = players
              /\ ~OnShoot(s, t, Num(150)).ev.killed

\* C20 witness: a connection whose game the sweep removed, while it and its
\* opponent stayed connected, has just sent a chat message to no effect
ChatAfterGameWasSwept ==
    /\ ev.op = "chatMessage" /\ ev.path = "noGame"
    /\ DOMAIN players = Duellists
    /\ games = <<>>
    /\ now >= MATCH_DURATION

\* the players, rosters and scores of a Game
Session(game) == [players |-> game.players, teams |-> game.teams, scores |-> game.scores]

\* the handler result r leaves every Game but obj as it was
OthersUntouched(r, obj) ==
    \A o \in DOMAIN heap : o # obj => Session(r.heap[o]) = Session(heap[o])

\* the ids of the registered games
GameIds == {games[i].id : i \in 1..Len(games)}

\* C21: sessions are isolated.  A position, shoot, chatMessage or disconnect
\* event of a connection changes the players, rosters and scores of no Game
\* other than the one the connection's index entry resolves to, and of no
\* Game in which the connection has no record; a respawn callback changes no
\* Game other than its own; a shot at an id that has no record in the
\* shooter's Game changes no Game at all; and a gameId in the payload never
\* changes which Game the handlers look up.  Stated of the handlers run in any
\* reachable state.
SessionsAreIsolated ==
    /\ \A s \in RoomSockets :
          /\ OthersUntouched(OnPosition(s, Edge, "r1", Num(50)), GameOf(s))
          /\ OthersUntouched(OnChatMessage(s, Hello), GameOf(s))
          /\ OthersUntouched(OnDisconnect(s), GameOf(s))
          /\ \A t \in RoomSockets :
                /\ OthersUntouched(OnShoot(s, t, Num(150)), GameOf(s))
                /\ (GameOf(s) # 0 /\ t \notin DOMAIN heap[GameOf(s)].players)
                      => OnShoot(s, t, Num(150)).heap = heap
          /\ (GameOf(s) # 0 /\ s \notin DOMAIN heap[GameOf(s)].players) =>
                /\ OthersUntouched(OnPosition(s, Edge, "r1", Num(50)), 0)
                /\ OthersUntouched(OnDisconnect(s), 0)
                /\ \A t \in RoomSockets : OthersUntouched(OnShoot(s, t, Num(150)), 0)
          /\ \A g \in GameIds \cup {NoId} : GameFor(s, g) = GameOf(s)
    /\ timers # <<>> =>
          OthersUntouched(OnRespawnTimer(Head(timers), 0, 0), Head(timers).obj)

\* C21 witness: two Games are registered, and a connection of the second has
\* just shot at a player of the first, to no effect
ShotAcrossSessions ==
    /\ Len(games) = 2
    /\ ev.op = "shoot" /\ ev.path = "unknown"
    /\ \E s \in DOMAIN heap[games[2].obj].players, t \in DOMAIN heap[games[1].obj].players :
          /\ s \notin DOMAIN heap[games[1].obj].players
          /\ t \notin DOMAIN heap[games[2].obj].players
          /\ heap[games[1].obj].players[t].health = MAX_HEALTH

\* display names: empty, too long, long with markup that sanitizing shortens
\* to the maximum, plain, and no string at all
EmptyName == Str(<<>>)
LongName == Str([i \in 1..(USERNAME_MAX_LENGTH + 1) |-> "a"])
LongMarkedName == Str([i \in 1..(USERNAME_MAX_LENGTH + 1) |-> IF i = 1 THEN "<" ELSE "a"])
PlainName == Str(<<"a", " ", "B", "7">>)
JoinNames == {Name1, BadName, EmptyName, LongName, LongMarkedName, PlainName, Markup, NoMessage}

\* the display name as sent passes the validation: a string of 1 to 15
\* letters, digits and spaces
NameAsSentIsValid(username) == username.str /\ isValidUsername(username.s)

\* C22: a joinGame whose display name fails validation (empty, longer than 15
\* characters, or with a character other than letters, digits and space) is
\* answered with an error to the sender only and changes nothing: no game is
\* created, no record or roster entry is added, no index entry is written.
\* Stated of the handler run in any reachable state.
InvalidNameIsRejected ==
    \A s \in Sockets, u \in JoinNames :
        ~NameAsSentIsValid(u) =>
            /\ OnJoinGame(s, u, 0, 0).games = games
            /\ OnJoinGame(s, u, 0, 0).heap = heap
            /\ OnJoinGame(s, u, 0, 0).players = players
            /\ OnJoinGame(s, u, 0, 0).timers = timers
            /\ OnJoinGame(s, u, 0, 0).ev.out = {Emit("error", "socket")}

\* C23: the object getGameState returns is detached from the Game: whatever
\* handler or callback runs after it was returned (a position update, a hit,
\* a kill, a respawn, a join of another connection, a disconnect), the scores
\* and the player records read from it stay what they were when it was
\* returned.  Stated of a snapshot taken in any reachable state and one
\* handler run after it.
SnapshotIsDetached ==
    \A o \in DOMAIN heap :
        LET state == getGameState(o, now)
            returned == Contents(state, heap)
        IN  /\ \A s \in Sockets :
                  /\ Contents(state, OnPosition(s, Origin, "r1", Num(50)).heap) = returned
                  /\ Contents(state, OnDisconnect(s).heap) = returned
                  /\ \A t \in Sockets :
                        Contents(state, OnShoot(s, t, Num(150)).heap) = returned
                  /\ s \notin DOMAIN heap[o].players =>
                        Contents(state, OnJoinGame(s, Name1, 0, 0).heap) = returned
            /\ timers # <<>> =>
                  Contents(state, OnRespawnTimer(Head(timers), 0, 0).heap) = returned

\* a message of one character more than the maximum, one of them markup
LongMarkedMessage ==
    Str([i \in 1..(CHAT_MESSAGE_MAX_LENGTH + 1) |-> IF i = 1 THEN "<" ELSE "x"])
RelayInputs == ChatInputs \cup {LongMarkedMessage}

\* the sockets io.to(game.id).emit('chatMessage') of the chat handler reaches
ChatRecipients(s, message) ==
    IF OnChatMessage(s, message).ev.path = "sent"
    THEN InRoom(heap[GameOf(s)].id)
    ELSE {}

\* the message passes the validation: not empty once sanitized, and at most
\* CHAT_MESSAGE_MAX_LENGTH characters
ChatValid(message) ==
    /\ sanitizeInput(message) # <<>>
    /\ Len(sanitizeInput(message)) <= CHAT_MESSAGE_MAX_LENGTH

\* the connections of the Game o: connected, with a record in o and an index
\* entry that resolves to o
Members(o) == {q \in DOMAIN heap[o].players : q \notin closed /\ GameOf(q) = o}

\* C24: a chat message that passes validation is relayed to the other members
\* of the sender's session and to no connection of another session; one that
\* fails validation is relayed to nobody; either way no game, player or
\* registry state changes.  Stated of the handler run in any reachable state.
ChatStaysInSession ==
    \A s \in RoomSockets, m \in RelayInputs :
        /\ OnChatMessage(s, m).games = games
        /\ OnChatMessage(s, m).heap = heap
        /\ OnChatMessage(s, m).players = players
        /\ OnChatMessage(s, m).timers = timers
        /\ ~ChatValid(m) => ChatRecipients(s, m) = {}
        /\ (ChatValid(m) /\ s \notin closed /\ GameOf(s) # 0) =>
              /\ Members(GameOf(s)) \ {s} \subseteq ChatRecipients(s, m)
              /\ \A q \in ChatRecipients(s, m) : GameOf(q) = GameOf(s)

\* the Game object o is registered
Ticking(o) == o \in DOMAIN heap /\ \E i \in 1..Len(games) : games[i].obj = o

\* the number of players of a team at a windmill of the Game object o
Present(o, id, team) == Cardinality(Occupants(heap[o], id, team))

\* C25: on a capture tick with at least one player of each team within the
\* radius of a windmill, the tick leaves that windmill as it was (progress,
\* owner and contesting team) and the windmill is not among those of the
\* tick's windmillUpdate.  Stated of the tick run in any reachable state.
ContestedWindmillIsSkipped ==
    \A o \in CaptureObjs : Ticking(o) =>
        \A id \in WindmillIds :
            (Present(o, id, "red") >= 1 /\ Present(o, id, "blue") >= 1) =>
                /\ OnCaptureTick(o).heap[o].windmills[id] = heap[o].windmills[id]
                /\ id \notin OnCaptureTick(o).ev.changed

\* C25 witness: a capture tick has just run with both teams at the North
\* windmill, which red was capturing, while another windmill changed
ContestedTickRan ==
    /\ ev.op = "captureTick" /\ ev.path = "changed"
    /\ Present(ev.obj, "mill_n", "red") >= 1 /\ Present(ev.obj, "mill_n", "blue") >= 1
    /\ heap[ev.obj].windmills["mill_n"].progress = 5 * CaptureStep
    /\ heap[ev.obj].windmills["mill_n"].contestingTeam = "red"

\* the team that is alone at a windmill of the Game object o, if any
Alone(o, id) == CapturingTeam(Present(o, id, "red"), Present(o, id, "blue"))

\* C26: on a capture tick with exactly one team at a windmill that it does
\* not own and whose contesting team is another, the windmill ends the tick
\* with that team as its contesting team and with the progress of one tick
\* counted from 0: progress earned by one team is never credited to the
\* other.  Stated of the tick run in any reachable state.
TakeoverStartsFromZero ==
    \A o \in CaptureObjs : Ticking(o) =>
        \A id \in WindmillIds :
            (/\ Alone(o, id) # NoTeam
             /\ heap[o].windmills[id].team # Alone(o, id)
             /\ heap[o].windmills[id].contestingTeam # Alone(o, id)) =>
                /\ OnCaptureTick(o).heap[o].windmills[id].contestingTeam = Alone(o, id)
                /\ OnCaptureTick(o).heap[o].windmills[id].progress = CaptureStep

\* C26 witness: blue, alone at the North windmill that red owns, has just
\* taken over the contest in a capture tick
BlueTookOverTheContest ==
    /\ ev.op = "captureTick" /\ "mill_n" \in ev.changed
    /\ Alone(ev.obj, "mill_n") = "blue"
    /\ heap[ev.obj].windmills["mill_n"] =
          [team |-> "red", progress |-> CaptureStep, contestingTeam |-> "blue"]

\* the progress a windmill has for the team that is alone at it: what the
\* windmill shows when that team is the contesting team, 0 otherwise
ProgressFor(mill, team) == IF mill.contestingTeam = team THEN mill.progress ELSE 0

\* C27 as claimed: on every capture tick with one team alone at a windmill
\* the progress grows by one increment, clamped to full progress; progress
\* always lies between 0 and full; the owner becomes the team that is alone
\* exactly on the tick in which progress reaches full, and changes on no
\* other tick.  Stated of the tick run in any reachable state.
ProgressGrowsForTheTeamAlone ==
    \A o \in CaptureObjs : Ticking(o) =>
        \A id \in WindmillIds :
            LET mill == heap[o].windmills[id]
                after == OnCaptureTick(o).heap[o].windmills[id]
            IN  /\ mill.progress \in 0..PROGRESS_FULL
                /\ Alone(o, id) # NoTeam =>
                      after.progress =
                          Min(PROGRESS_FULL, ProgressFor(mill, Alone(o, id)) + CaptureStep)
                /\ after.team # mill.team <=>
                      /\ Alone(o, id) \notin {NoTeam, mill.team}
                      /\ after.progress = PROGRESS_FULL
                      /\ after.team = Alone(o, id)

\* C27 amended: the same for a team that is alone at a windmill it does not
\* own; with its owner alone at it a windmill stays as it is.
ProgressGrowsForTheCapturingTeam ==
    \A o \in CaptureObjs : Ticking(o) =>
        \A id \in WindmillIds :
            LET mill == heap[o].windmills[id]
                after == OnCaptureTick(o).heap[o].windmills[id]
            IN  /\ mill.progress \in 0..PROGRESS_FULL
                /\ Alone(o, id) \notin {NoTeam, mill.team} =>
                      after.progress =
                          Min(PROGRESS_FULL, ProgressFor(mill, Alone(o, id)) + CaptureStep)
                /\ (Alone(o, id) # NoTeam /\ Alone(o, id) = mill.team) => after = mill
                /\ after.team # mill.team <=>
                      /\ Alone(o, id) \notin {NoTeam, mill.team}
                      /\ after.progress = PROGRESS_FULL
                      /\ after.team = Alone(o, id)

\* C27 witness: red, alone at the neutral North windmill for five ticks, has
\* brought it to half progress
HalfCapturedByRed ==
    /\ ev.op = "captureTick" /\ "mill_n" \in ev.changed
    /\ Alone(ev.obj, "mill_n") = "red"
    /\ heap[ev.obj].windmills["mill_n"] =
          [team |-> NoTeam, progress |-> 5 * CaptureStep, contestingTeam |-> "red"]

\* nobody of either team is within the radius of the windmill
Deserted(o, id) == Present(o, id, "red") = 0 /\ Present(o, id, "blue") = 0

\* C28: on a capture tick with nobody within the radius of a windmill, an
\* owned windmill is left as it is, and an unowned windmill with progress
\* above 0 loses one tick of decay, floored at 0, stays unowned, and has its
\* contesting team cleared exactly when its progress reaches 0.  Stated of
\* the tick run in any reachable state.
DesertedWindmillDecaysUnlessOwned ==
    \A o \in CaptureObjs : Ticking(o) =>
        \A id \in WindmillIds : Deserted(o, id) =>
            LET mill == heap[o].windmills[id]
                after == OnCaptureTick(o).heap[o].windmills[id]
            IN  /\ mill.team # NoTeam => after = mill
                /\ (mill.team = NoTeam /\ mill.progress > 0) =>
                      /\ after.progress = Max(0, mill.progress - DecayStep)
                      /\ after.team = NoTeam
                      /\ after.contestingTeam = NoTeam <=> after.progress = 0
                      /\ after.progress > 0 => after.contestingTeam = mill.contestingTeam

\* C28 witness: a capture tick has just cleared the deserted, unowned Hill
\* windmill, while the deserted North windmill still belongs to red
HillDecayedNorthKept ==
    /\ ev.op = "captureTick" /\ "mill_c" \in ev.changed
    /\ Deserted(ev.obj, "mill_c") /\ Deserted(ev.obj, "mill_n")
    /\ heap[ev.obj].windmills["mill_c"] = NeutralWindmill
    /\ heap[ev.obj].windmills["mill_n"].team = "red"
    /\ "mill_n" \notin ev.changed

\* C29: a scoring tick adds to each team's score exactly the number of
\* windmills that are Owned by the team at that moment (owner set, progress
\* full); a windmill that is neutral or being captured adds nothing to either
\* team, nor does the presence of players at a windmill matter; and the tick
\* changes nothing but the scores, whatever kills have been scored.  Stated of
\* the tick run in any reachable state.
ScoringTickPaysOwnedWindmills ==
    \A o \in CaptureObjs : Ticking(o) =>
        LET after == OnScoreTick(o).heap[o] IN
        /\ \A t \in Teams :
              after.scores[t] - heap[o].scores[t] =
                  Cardinality({id \in WindmillIds :
                                 /\ heap[o].windmills[id].team = t
                                 /\ heap[o].windmills[id].progress = PROGRESS_FULL})
        /\ [after EXCEPT !.scores = heap[o].scores] = heap[o]
        /\ \A p \in DOMAIN OnScoreTick(o).heap : p # o => OnScoreTick(o).heap[p] = heap[p]

\* C29 witness: red, with one kill to its name, owns North and Hill, both at
\* full progress, and has just been paid 2 by a scoring tick
RedPaidForTwoWindmills ==
    /\ ev.op = "scoreTick"
    /\ \A id \in {"mill_n", "mill_c"} :
          heap[ev.obj].windmills[id] =
              [team |-> "red", progress |-> PROGRESS_FULL, contestingTeam |-> "red"]
    /\ heap[ev.obj].scores = [red |-> 3, blue |-> 0]
    /\ \E q \in DOMAIN heap[ev.obj].players : heap[ev.obj].players[q].kills = 1

\* C30: a Game that findOrCreateGame creates gets an id the games Map does
\* not hold, so that registering it adds an entry and leaves every registered
\* game in the Map, however many games are created at one value of the clock.
\* Stated of the call made in any reachable state.
CreatedGameHasUnregisteredId ==
    LET found == findOrCreateGame(games, heap, now) IN
    found.created =>
        /\ ~HasGame(games, found.heap[found.obj].id)
        /\ Len(found.games) = Len(games) + 1
        /\ \A i \in 1..Len(games) : found.games[i] = games[i]

\* the lastPosition of every record of every Game object
Baselines(hp) ==
    [o \in DOMAIN hp |-> [q \in DOMAIN hp[o].players |-> hp[o].players[q].lastPosition]]

\* C31: lastPosition follows the accepted position updates only.  A record
\* made by a join and a record the respawn callback has reset hold no
\* lastPosition; an update of a record without lastPosition commits a valid
\* position as sent, however far it lies from the stored position; after every
\* successful update lastPosition equals the committed position; a rejected
\* update leaves lastPosition as it was; and a shot changes no lastPosition.
\* Stated of the handlers run in any reachable state.
BaselineFollowsAcceptedUpdates ==
    /\ \A s \in Duellists : s \notin DOMAIN players =>
          LET joined == OnJoinGame(s, Name1, 0, 0)
          IN  joined.heap[joined.ev.obj].players[s].lastPosition = NullPos
    /\ (timers # <<>> /\ Head(timers).playerId \in DOMAIN heap[Head(timers).obj].players) =>
          OnRespawnTimer(Head(timers), 0, 0)
              .heap[Head(timers).obj].players[Head(timers).playerId].lastPosition = NullPos
    /\ \A s \in Movers, m \in MoveMessages : Playing(s) =>
          LET before == heap[GameOf(s)].players[s]
              after == OnPosition(s, m.position, m.rotation, m.energy)
              rec == after.heap[GameOf(s)].players[s]
          IN  /\ after.ev.ok <=> m.position \in ValidPositions
              /\ after.ev.ok => rec.lastPosition = rec.position
              /\ (after.ev.ok /\ ~before.lastPosition.obj) => rec.position = m.position
              /\ ~after.ev.ok => rec.lastPosition = before.lastPosition
              /\ \A q \in DOMAIN heap[GameOf(s)].players \ {s} :
                    after.heap[GameOf(s)].players[q].lastPosition =
                        heap[GameOf(s)].players[q].lastPosition
    /\ \A s, t \in Duellists, d \in MoveDamage :
          Baselines(OnShoot(s, t, d).heap) = Baselines(heap)

\* C31 witness: the respawn callback has just reset a killed player: the record
\* is back at its spawn position, further than the maximum from Origin, and
\* holds no lastPosition, so that the update to Origin it may send next meets
\* no displacement check
RespawnClearedBaseline ==
    /\ ev.op = "respawnPlayer" /\ ev.path = "respawned"
    /\ \E o \in DOMAIN heap : \E q \in DOMAIN heap[o].players \cap Movers :
          /\ heap[o].players[q].deaths = 1
          /\ heap[o].players[q].health = MAX_HEALTH
          /\ heap[o].players[q].lastPosition = NullPos
          /\ TooFar(heap[o].players[q].position, Origin)
          /\ OnPosition(q, Origin, "r1", Undef).heap[o].players[q].lastPosition = Origin

\* the registered games that hold a PlayerRecord of the connection s
RecordsOf(s) == {i \in 1..Len(games) : s \in DOMAIN heap[games[i].obj].players}

\* C32: a connection has a PlayerRecord in at most one registered game, also
\* when it has sent joinGame more than once, and none once it has disconnected.
OneRecordPerConnection ==
    \A s \in RoomSockets :
        /\ Cardinality(RecordsOf(s)) <= 1
        /\ s \in closed => RecordsOf(s) = {}

\* C33: the players index and the records of the registered games agree: every
\* index entry names a registered game that holds a PlayerRecord of that
\* connection, and every PlayerRecord of a registered game has an index entry
\* naming that game; also after the cleanup has removed games.
IndexMatchesRecords ==
    /\ \A s \in DOMAIN players :
          /\ HasGame(games, players[s].gameId)
          /\ s \in DOMAIN heap[GetGame(games, players[s].gameId)].players
    /\ \A i \in 1..Len(games) : \A q \in DOMAIN heap[games[i].obj].players :
          q \in DOMAIN players /\ players[q].gameId = games[i].id

\* C34: the game findOrCreateGame returns to a join has not ended, so that the
\* timeRemaining the gameJoined message reports is positive.  Stated of the
\* call made in any reachable state.
JoinedGameHasNotEnded ==
    LET found == findOrCreateGame(games, heap, now)
        game == found.heap[found.obj]
    IN  /\ ~isEnded(game, now)
        /\ MATCH_DURATION - (now - game.startTime) > 0

\* C35: a player whose health is 0 deals no damage: a shot sent by such a
\* player changes no health, kills, deaths or score and schedules no respawn.
\* Stated of the shoot handler run in any reachable state.
DeadPlayerDealsNoDamage ==
    \A s, t \in Duellists, d \in DamageInputs :
        (Playing(s) /\ heap[GameOf(s)].players[s].health = 0) =>
            /\ OnShoot(s, t, d).heap = heap
            /\ OnShoot(s, t, d).timers = timers

\* C36: a killed player stays at health 0 until its respawn callback runs:
\* while the callback a kill has scheduled is pending, due or not, the record
\* of the target has health 0, whatever hits, position updates and joins
\* arrive; so no callback runs before RESPAWN_DELAY has elapsed on a health
\* restored earlier, and none runs on a player whose health is above 0.
DeadUntilRespawnFires ==
    \A i \in 1..Len(timers) :
        timers[i].playerId \in DOMAIN heap[timers[i].obj].players =>
            heap[timers[i].obj].players[timers[i].playerId].health = 0

\* the pending respawn callbacks of the Game object o for the player q
PendingFor(o, q) == {i \in 1..Len(timers) : timers[i].obj = o /\ timers[i].playerId = q}

\* C37: a PlayerRecord has a pending respawn callback exactly when its health
\* is 0, and never more than one.
RespawnPendingIffDead ==
    \A o \in DOMAIN heap : \A q \in DOMAIN heap[o].players :
        /\ Cardinality(PendingFor(o, q)) <= 1
        /\ PendingFor(o, q) # {} <=> heap[o].players[q].health = 0

\* the Game objects of hp that exist now have the scores they have now, and
\* the others have no points
ScoresKept(hp) ==
    \A o \in DOMAIN hp :
        hp[o].scores = IF o \in DOMAIN heap THEN heap[o].scores ELSE [red |-> 0, blue |-> 0]

\* joins, position updates, disconnects, respawn callbacks and capture ticks
\* leave every score as it is, and a created game starts without points
QuietHandlersKeepScores ==
    /\ \A s \in Duellists : ScoresKept(OnJoinGame(s, Name1, 0, 0).heap)
    /\ \A f \in Flights : ScoresKept(OnPosition(f.socket, f.position, "r1", Undef).heap)
    /\ \A s \in Duellists : ScoresKept(OnDisconnect(s).heap)
    /\ timers # <<>> => ScoresKept(OnRespawnTimer(Head(timers), 0, 0).heap)
    /\ \A o \in CaptureObjs : Ticking(o) => ScoresKept(OnCaptureTick(o).heap)

\* a shot adds one point to the team of the shooter in the shooter's game when
\* it kills, and changes no score otherwise
ShotPaysTheKill ==
    \A s, t \in Duellists :
        LET shot == OnShoot(s, t, Num(150)) IN
        IF shot.ev.killed
        THEN shot.heap = [heap EXCEPT ![GameOf(s)] =
                [shot.heap[GameOf(s)] EXCEPT !.scores =
                    [heap[GameOf(s)].scores EXCEPT
                        ![heap[GameOf(s)].players[s].team] = @ + 1]]]
        ELSE ScoresKept(shot.heap)

ScoresNonNegative ==
    \A o \in DOMAIN heap : \A t \in Teams : heap[o].scores[t] >= 0

IgnoredShotIsNotBroadcast ==
    \A s, t \in Duellists, d \in DamageInputs :
        LET shot == OnShoot(s, t, d) IN
        /\ shot.ev.path \in {"unknown", "friendlyFire", "ignored"} => shot.ev.out = {}
        /\ (Emit("playerHit", "room") \in shot.ev.out /\ ShootDamage(d).v > 0) =>
              shot.heap[GameOf(s)].players[t].health < heap[GameOf(s)].players[t].health

\* C40: the sender name of every relayed chat message is the name the sending
\* connection registered at its join, whatever the chat payload carries.
\* Stated of the chat handler run in any reachable state.
ChatCarriesRegisteredName ==
    \A s \in Crossers, u \in ChatNames \cup {NoUsername} :
        OnChatMessageNamed(s, Hello, u).ev.path = "sent" =>
            OnChatMessageNamed(s, Hello, u).ev.username = players[s].username

====
